---- MODULE Spec2Model ----
(***************************************************************************)
(* A model of the git-nexus backend (src/backend): the GitHub rate-limit   *)
(* tracker (services/github_service.py), the Replay server orchestrator    *)
(* (services/server_service.py with adapters/static_html.py) and the       *)
(* watchlist update engine (routers/watchlist.py).                         *)
(*                                                                         *)
(* Every subsystem has its own specification; the variables of the other   *)
(* subsystems stay at their initial value under it.                        *)
(***************************************************************************)
EXTENDS Integers, Sequences, FiniteSets, TLC

VARIABLES
    \* ---- persistence store, table api_status (models/github.py)
    disk,       \* the committed rows of api_status, in rowid order
    conn,       \* the rows as the one shared DBAPI connection sees them
                \* (database.py: StaticPool): disk plus every flushed,
                \* uncommitted statement of every session
    \* ---- inbound requests that reach GitHubService._request
    rpc,        \* rpc[r]: position of request r
    robs,       \* robs[r]: the response being processed (headers, token_source)
    rsess,      \* rsess[r]: the ORM session of r: identity map and pending insert
    nobs,       \* nobs[r]: outbound calls made so far by request r
    \* ---- Replay orchestrator (services/server_service.py)
    servers,    \* ServerOrchestrator._servers, in insertion order
    next_port,  \* ServerOrchestrator._next_port
    calls,      \* calls[c]: a start_server call, suspended or returned
    chld,       \* the living child processes: {[port, pid]}
    ext,        \* ports bound by processes the orchestrator did not start
    \* ---- watchlist (routers/watchlist.py, models/watchlist.py)
    tracked,    \* the committed rows of tracked_repos, by id
    wrun,       \* the check_updates request: position, loaded repos, results
    now,        \* the clock
    \* ---- GitHub client (services/github_service.py)
    out,        \* coroutines at the client: semaphores held, requests in flight
    \* ---- response cache (services/cache_service.py, models/cache.py)
    cache,      \* the committed rows of cache_entries, in rowid order
    creq,       \* creq[h]: a handler that uses the cache
    ctime,      \* the clock the cache reads
    \* ---- token resolver (services/token_service.py, utils/crypto.py)
    tcfg,       \* GITHUB_TOKEN, the Fernet key, the app_config row github_token
    tres,       \* the last resolution: request token, token, source
    \* ---- scoped environment variables (services/env_service.py)
    envrows,    \* the committed rows of env_vars, in rowid order
    eres,       \* the last answer of the env service
    \* ---- commit workspaces (services/workspace_service.py, git_service.py)
    wfs,        \* the workspace directories on disk, each with the archive
                \* members it holds
    wcalls,     \* wcalls[c]: position and answer of create_workspace call c
    \* ---- Static HTML adapter (adapters/static_html.py)
    aproc,      \* the child processes spawned by the adapter
    ares,       \* the last answer of StaticHTMLAdapter.start
    \* ---- watchlist entries (routers/watchlist.py, models/watchlist.py)
    wl,         \* the committed rows of tracked_repos, by rowid
    wlconn,     \* the rows as the one shared connection sees them
    wlres,      \* the last answer of add_by_url, remove_repo, import_watchlist
    wlrun,      \* wlrun[r]: position of check_updates run r
    wlq,        \* the statements sent to the connection, the runs woken
    wlnow,      \* the clock of the stamps
    \* ---- release cache (services/release_cache_service.py)
    rctable,    \* the rows of cached_releases, in rowid order
    rcnow,      \* the clock of the cache, in minutes
    rcres,      \* the answer of get_cached_releases its caller holds
    rcput,      \* history: rcput[repo], the last cache_releases of repo
    \* ---- commit rows (routers/replay.py, services/git_service.py)
    ghist,      \* ghist[p]: the git history of the repository at path p
    grows,      \* grows[p]: the Repository row of p and its rows of commits
    \* ---- commit count (services/github_service.py)
    ccres,      \* the last call of fetch_commit_count: response and result
    \* ---- API status endpoint (routers/discovery.py)
    strow,      \* the committed rows of api_status the endpoint reads
    stnow,      \* the clock of the endpoint
    stres,      \* the last read: outbound requests, token, answer
    \* ---- log worker (utils/logger.py, main.py)
    logq,       \* db_handler.queue, the oldest record first
    logs,       \* the records in the committed rows of the logs table
    logw,       \* the log_worker task: where it waits, and its batch
    logn,       \* log records emitted so far
    logc,       \* the cancellation of the task and the records before it
    \* ---- retry loop of start_server (server_service.py)
    rtry,       \* one start_server call in its retry loop: attempts made, sleeps asked for
    \* ---- asset download (routers/settings.py, utils/security.py)
    dl,         \* the download-asset request being answered: its URL, what DNS said, the requests made and files written
    \* ---- token read endpoint (routers/settings.py)
    tstat,      \* the last answer of GET /token
    \* ---- contribution graph (routers/discovery.py)
    cg,         \* commits_synced marker and stored commits of one user, the background syncs and the answer being sent
    \* ---- check-updates workers and the rate-limit row (routers/watchlist.py)
    cu          \* one check_updates request: position, workers started, api_status rows their flushes wrote

rlVars == <<disk, conn, rpc, robs, rsess, nobs>>

orchVars == <<servers, next_port, calls, chld, ext>>

watchVars == <<tracked, wrun, now>>

clientVars == <<out>>

\* the variables of the subsystems other than the first three
cacheVars == <<cache, creq, ctime>>

tokenVars == <<tcfg, tres>>

envVars == <<envrows, eres>>

wsVars == <<wfs, wcalls>>

adapterVars == <<aproc, ares>>

entryVars == <<wl, wlconn, wlres, wlrun, wlq, wlnow>>

releaseVars == <<rctable, rcnow, rcres, rcput>>

commitVars == <<ghist, grows>>

countVars == <<ccres>>

statusVars == <<strow, stnow, stres>>

logVars == <<logq, logs, logw, logn, logc>>

retryVars == <<rtry>>

downloadVars == <<dl>>

tokenStatusVars == <<tstat>>

graphVars == <<cg>>

checkVars == <<cu>>

laterVars == <<clientVars, cacheVars, tokenVars, envVars, wsVars, adapterVars, entryVars, releaseVars, commitVars, countVars, statusVars, logVars, retryVars, downloadVars, tokenStatusVars, graphVars, checkVars>>

\* the variables a subsystem leaves alone
exceptClient == <<rlVars, orchVars, watchVars, cacheVars, tokenVars, envVars, wsVars, adapterVars, entryVars, releaseVars, commitVars, countVars, statusVars, logVars, retryVars, downloadVars, tokenStatusVars, graphVars, checkVars>>
exceptCache == <<rlVars, orchVars, watchVars, clientVars, tokenVars, envVars, wsVars, adapterVars, entryVars, releaseVars, commitVars, countVars, statusVars, logVars, retryVars, downloadVars, tokenStatusVars, graphVars, checkVars>>
exceptToken == <<rlVars, orchVars, watchVars, clientVars, cacheVars, envVars, wsVars, adapterVars, entryVars, releaseVars, commitVars, countVars, statusVars, logVars, retryVars, downloadVars, tokenStatusVars, graphVars, checkVars>>
exceptEnv == <<rlVars, orchVars, watchVars, clientVars, cacheVars, tokenVars, wsVars, adapterVars, entryVars, releaseVars, commitVars, countVars, statusVars, logVars, retryVars, downloadVars, tokenStatusVars, graphVars, checkVars>>
exceptWs == <<rlVars, orchVars, watchVars, clientVars, cacheVars, tokenVars, envVars, adapterVars, entryVars, releaseVars, commitVars, countVars, statusVars, logVars, retryVars, downloadVars, tokenStatusVars, graphVars, checkVars>>
exceptAdapter == <<rlVars, orchVars, watchVars, clientVars, cacheVars, tokenVars, envVars, wsVars, entryVars, releaseVars, commitVars, countVars, statusVars, logVars, retryVars, downloadVars, tokenStatusVars, graphVars, checkVars>>
exceptEntries == <<rlVars, orchVars, watchVars, clientVars, cacheVars, tokenVars, envVars, wsVars, adapterVars, releaseVars, commitVars, countVars, statusVars, logVars, retryVars, downloadVars, tokenStatusVars, graphVars, checkVars>>
exceptReleases == <<rlVars, orchVars, watchVars, clientVars, cacheVars, tokenVars, envVars, wsVars, adapterVars, entryVars, commitVars, countVars, statusVars, logVars, retryVars, downloadVars, tokenStatusVars, graphVars, checkVars>>
exceptCommits == <<rlVars, orchVars, watchVars, clientVars, cacheVars, tokenVars, envVars, wsVars, adapterVars, entryVars, releaseVars, countVars, statusVars, logVars, retryVars, downloadVars, tokenStatusVars, graphVars, checkVars>>
exceptCount == <<rlVars, orchVars, watchVars, clientVars, cacheVars, tokenVars, envVars, wsVars, adapterVars, entryVars, releaseVars, commitVars, statusVars, logVars, retryVars, downloadVars, tokenStatusVars, graphVars, checkVars>>
exceptStatus == <<rlVars, orchVars, watchVars, clientVars, cacheVars, tokenVars, envVars, wsVars, adapterVars, entryVars, releaseVars, commitVars, countVars, logVars, retryVars, downloadVars, tokenStatusVars, graphVars, checkVars>>
exceptLogs == <<rlVars, orchVars, watchVars, clientVars, cacheVars, tokenVars, envVars, wsVars, adapterVars, entryVars, releaseVars, commitVars, countVars, statusVars, retryVars, downloadVars, tokenStatusVars, graphVars, checkVars>>
exceptRetry == <<rlVars, orchVars, watchVars, clientVars, cacheVars, tokenVars, envVars, wsVars, adapterVars, entryVars, releaseVars, commitVars, countVars, statusVars, logVars, downloadVars, tokenStatusVars, graphVars, checkVars>>
exceptDownload == <<rlVars, orchVars, watchVars, clientVars, cacheVars, tokenVars, envVars, wsVars, adapterVars, entryVars, releaseVars, commitVars, countVars, statusVars, logVars, retryVars, tokenStatusVars, graphVars, checkVars>>
exceptTokenStatus == <<rlVars, orchVars, watchVars, clientVars, cacheVars, tokenVars, envVars, wsVars, adapterVars, entryVars, releaseVars, commitVars, countVars, statusVars, logVars, retryVars, downloadVars, graphVars, checkVars>>
exceptGraph == <<rlVars, orchVars, watchVars, clientVars, cacheVars, tokenVars, envVars, wsVars, adapterVars, entryVars, releaseVars, commitVars, countVars, statusVars, logVars, retryVars, downloadVars, tokenStatusVars, checkVars>>
exceptCheck == <<rlVars, orchVars, watchVars, clientVars, cacheVars, tokenVars, envVars, wsVars, adapterVars, entryVars, releaseVars, commitVars, countVars, statusVars, logVars, retryVars, downloadVars, tokenStatusVars, graphVars>>

vars == <<disk, conn, rpc, robs, rsess, nobs, servers, next_port, calls, chld, ext,
          tracked, wrun, now, out, cache, creq, ctime,
          tcfg, tres, envrows, eres, wfs, wcalls, aproc, ares,
          wl, wlconn, wlres, wlrun, wlq, wlnow,
          rctable, rcnow, rcres, rcput,
          ghist, grows,
          ccres,
          strow, stnow, stres,
          logq, logs, logw, logn, logc,
          rtry,
          dl,
          tstat,
          cg,
          cu>>

(***************************************************************************)
(*                    RATE-LIMIT TRACKER (github_service.py)               *)
(***************************************************************************)

\* Number of concurrently handled inbound requests.
NumReq == 2
\* Outbound GitHub calls one inbound request makes at most.
MaxObs == 2
\* The same, for requests handled concurrently.
ConcObs == 1

Requests == 1..NumReq
\* One pending insert per session at most, so at most NumReq rows.
MaxRows == NumReq

AuthedSources == {"env", "db", "authed"}

NullRow == [limit |-> 0, remaining |-> 0, reset_time |-> 0, token_source |-> "none"]

\* x-ratelimit-* headers of a response.  kind "ok": the three integer
\* headers; "absent": no x-ratelimit-remaining header; "bad": a header whose
\* value int() rejects.
HeaderSet ==
    { [kind |-> "ok", limit |-> 5000, remaining |-> 4800, reset |-> 2],
      [kind |-> "ok", limit |-> 60,   remaining |-> 59,   reset |-> 1],
      [kind |-> "ok", limit |-> 30,   remaining |-> 29,   reset |-> 1],
      [kind |-> "absent", limit |-> 0, remaining |-> 0, reset |-> 0],
      [kind |-> "bad",    limit |-> 0, remaining |-> 0, reset |-> 0] }

\* Rows an existing database file may hold when the process starts.
InitRows ==
    { [limit |-> 5000, remaining |-> 4800, reset_time |-> 2, token_source |-> "db"],
      [limit |-> 5000, remaining |-> 4800, reset_time |-> 2, token_source |-> "env"],
      [limit |-> 60,   remaining |-> 59,   reset_time |-> 1, token_source |-> "none"] }

NoObj == [present |-> FALSE, loaded |-> NullRow, cur |-> NullRow]
NoAdd == [present |-> FALSE, row |-> NullRow]
EmptySession == [objs |-> [i \in 1..MaxRows |-> NoObj], add |-> NoAdd]
NoResponse == [headers |-> [kind |-> "absent", limit |-> 0, remaining |-> 0, reset |-> 0],
               token_source |-> "None"]

\* github_service.py:82  token_source = "authed" if "Authorization" in headers else None
RequestTokenSource(auth) == IF auth THEN "authed" ELSE "None"

\* github_service.py:37
NewSource(token_source, limit) ==
    IF token_source # "None" THEN token_source
    ELSE IF limit > 500 THEN "authed" ELSE "none"

\* A plausible slip: "authed" forgotten among the protected sources.
ShouldSkipEnvDbOnly(limit, new_source, status) ==
    /\ limit < status.limit
    /\ status.token_source \in {"env", "db"}
    /\ new_source = "none"

\* github_service.py:46-49  is_downgrade and was_authed and new_source == "none"
ShouldSkip(limit, new_source, status) ==
    /\ limit < status.limit
    /\ status.token_source \in AuthedSources
    /\ new_source = "none"

\* The row an observation writes (github_service.py:53-56, 58).
ObservedRow(h, token_source) ==
    [limit |-> h.limit, remaining |-> h.remaining, reset_time |-> h.reset,
     token_source |-> NewSource(token_source, h.limit)]

\* The ORM's UPDATE carries only the attributes whose value differs from the
\* one loaded; the other columns of the row keep what the connection holds.
MergeChanged(row, loaded, cur) ==
    [limit        |-> IF cur.limit # loaded.limit THEN cur.limit ELSE row.limit,
     remaining    |-> IF cur.remaining # loaded.remaining THEN cur.remaining ELSE row.remaining,
     reset_time   |-> IF cur.reset_time # loaded.reset_time THEN cur.reset_time ELSE row.reset_time,
     token_source |-> IF cur.token_source # loaded.token_source
                      THEN cur.token_source ELSE row.token_source]

Dirty(s) == {i \in 1..MaxRows : s.objs[i].present /\ s.objs[i].cur # s.objs[i].loaded}

\* _request, lines 77-82: the handler (holding its own session from get_db)
\* calls GitHub; the response arrives with its headers.
Request(r) ==
    /\ rpc[r] \in {"idle", "handler"}
    /\ nobs[r] < MaxObs
    /\ \E h \in HeaderSet, auth \in BOOLEAN :
          robs' = [robs EXCEPT ![r] = [headers |-> h,
                                        token_source |-> RequestTokenSource(auth)]]
    /\ rpc' = [rpc EXCEPT ![r] = "update"]
    /\ nobs' = [nobs EXCEPT ![r] = @ + 1]
    /\ UNCHANGED <<disk, conn, rsess>>

\* _update_rate_limit, lines 28-58: the header checks, the SELECT and the
\* decision; nothing suspends between the SELECT's result and the flush.
UpdateRateLimit(r) ==
    /\ rpc[r] = "update"
    /\ LET h == robs[r].headers
           new_source == NewSource(robs[r].token_source, h.limit)
           mapped == rsess[r].objs[1]
           status == IF mapped.present THEN mapped
                     ELSE [present |-> TRUE, loaded |-> conn[1], cur |-> conn[1]]
       IN  CASE h.kind = "absent" ->
                  /\ rpc' = [rpc EXCEPT ![r] = "handler"]
                  /\ UNCHANGED <<disk, conn, rsess>>
             [] h.kind = "bad" ->
                  \* int() raises: except branch, db.rollback()
                  /\ rpc' = [rpc EXCEPT ![r] = "handler"]
                  /\ conn' = disk
                  /\ rsess' = [rsess EXCEPT ![r] = EmptySession]
                  /\ UNCHANGED disk
             [] h.kind = "ok" /\ Len(conn) = 0 ->
                  /\ rsess' = [rsess EXCEPT ![r].add =
                                  [present |-> TRUE,
                                   row |-> ObservedRow(h, robs[r].token_source)]]
                  /\ rpc' = [rpc EXCEPT ![r] = "flush"]
                  /\ UNCHANGED <<disk, conn>>
             [] h.kind = "ok" /\ Len(conn) > 0 ->
                  IF ShouldSkip(h.limit, new_source, status.cur)
                  THEN /\ rsess' = [rsess EXCEPT ![r].objs[1] = status]
                       /\ rpc' = [rpc EXCEPT ![r] = "handler"]
                       /\ UNCHANGED <<disk, conn>>
                  ELSE /\ rsess' = [rsess EXCEPT ![r].objs[1] =
                                       [status EXCEPT !.cur =
                                           ObservedRow(h, robs[r].token_source)]]
                       /\ rpc' = [rpc EXCEPT ![r] = "flush"]
                       /\ UNCHANGED <<disk, conn>>
    /\ UNCHANGED <<robs, nobs>>

\* _update_rate_limit, lines 61-66: db.flush() sends the INSERT or the UPDATE
\* over the shared connection; an UPDATE that matches no row raises and the
\* except branch rolls the connection back.
Flush(r) ==
    /\ rpc[r] = "flush"
    /\ LET s == rsess[r]
           d == Dirty(s)
       IN  IF s.add.present
           THEN /\ conn' = Append(conn, s.add.row)
                /\ rsess' = [rsess EXCEPT ![r] =
                               [objs |-> [s.objs EXCEPT ![Len(conn) + 1] =
                                            [present |-> TRUE, loaded |-> s.add.row,
                                             cur |-> s.add.row]],
                                add |-> NoAdd]]
           ELSE IF d = {}
           THEN UNCHANGED <<conn, rsess>>
           ELSE IF \E i \in d : i > Len(conn)
           THEN /\ conn' = disk
                /\ rsess' = [rsess EXCEPT ![r] = EmptySession]
           ELSE /\ conn' = [i \in 1..Len(conn) |->
                              IF i \in d
                              THEN MergeChanged(conn[i], s.objs[i].loaded, s.objs[i].cur)
                              ELSE conn[i]]
                /\ rsess' = [rsess EXCEPT ![r].objs =
                               [i \in 1..MaxRows |->
                                  IF i \in d
                                  THEN [s.objs[i] EXCEPT !.loaded = s.objs[i].cur]
                                  ELSE s.objs[i]]]
    /\ rpc' = [rpc EXCEPT ![r] = "handler"]
    /\ UNCHANGED <<disk, robs, nobs>>

\* The handler commits (e.g. cache_service.set_cached): the commit goes to the
\* shared connection and makes every flushed statement durable.
Commit(r) ==
    /\ rpc[r] = "handler"
    /\ conn # disk
    /\ disk' = conn
    /\ UNCHANGED <<conn, rpc, robs, rsess, nobs>>

\* The request ends: get_db closes the session, the connection is returned to
\* the pool and reset by a rollback.
Close(r) ==
    /\ rpc[r] = "handler"
    /\ conn' = disk
    /\ rpc' = [rpc EXCEPT ![r] = "idle"]
    /\ rsess' = [rsess EXCEPT ![r] = EmptySession]
    /\ robs' = [robs EXCEPT ![r] = NoResponse]
    /\ nobs' = [nobs EXCEPT ![r] = 0]
    /\ UNCHANGED disk

RLStep(r) ==
    \/ Request(r)
    \/ UpdateRateLimit(r)
    \/ Flush(r)
    \/ Commit(r)
    \/ Close(r)

\* Requests handled one after another: a request starts only when no other
\* request is being handled.
Alone(r) == \A q \in Requests \ {r} : rpc[q] = "idle"

RLSeqNext == /\ \E r \in Requests : Alone(r) /\ RLStep(r)
             /\ UNCHANGED <<orchVars, watchVars, laterVars>>

RLNext == /\ \E r \in Requests : RLStep(r) /\ nobs'[r] <= ConcObs
          /\ UNCHANGED <<orchVars, watchVars, laterVars>>

(***************************************************************************)
(*                REPLAY ORCHESTRATOR (server_service.py)                  *)
(***************************************************************************)

\* settings.base_server_port
BasePort == 9000
\* StaticHTMLAdapter.start: the accepted port range
MinPort == 1024
MaxPort == 65535
\* start_server: max_retries
max_retries == 3
\* _get_next_available_port: max_attempts, 1000 in the source, scaled down
MaxProbes == 2
\* start_server calls in flight at once
NumCalls == 2
\* instances the registry holds at most
MaxInstances == 2

Calls == 1..NumCalls
\* (repo_id, commit_hash) pairs
Keys == {"r1/c1", "r1/c2"}
NoPort == 0
\* The ports other processes may bind, and the ports a caller may prefer.
WinPorts == BasePort..(BasePort + MaxProbes - 1)
PreferredPorts == {NoPort, BasePort, BasePort + 1}
\* The counter is not advanced past this port.
PortCap == BasePort + MaxProbes - 1

\* Popen references: a living child is named by the port it holds; NoProc
\* stands for None and for a process that has exited (the code only ever asks
\* a process whether it is still running).
NoProc == 0

\* _get_adapter: the error names the first ListedLimit files of the workspace
ListedLimit == 10
\* files in the largest workspace
MaxFiles == 11

\* A workspace is the listing of its root (iterdir); a file is named by a
\* number, index.html by IndexHtml.
IndexHtml == 0
Listings == {<<IndexHtml>>, [i \in 1..MaxFiles |-> i]}

\* StaticHTMLAdapter.validate: index.html exists at the root
Validates(files) == \E i \in 1..Len(files) : files[i] = IndexHtml

\* A plausible slip: every file of the workspace is named.
FileNamesAll(files) == files

\* _get_adapter, lines 76-77: [f.name for f in files[:10]]
FileNames(files) ==
    SubSeq(files, 1, IF Len(files) < ListedLimit THEN Len(files) ELSE ListedLimit)

\* `listed`: the file names the error text of the instance carries
NoInstance == [id |-> 0, key |-> "", port |-> 0, status |-> "", error |-> "", pid |-> NoProc,
               listed |-> <<>>]
IdleCall == [pc |-> "idle", key |-> "", mode |-> "",
             id |-> 0, port |-> 0, pid |-> 0, allocs |-> 0, starts |-> 0,
             bindfail |-> FALSE, result |-> NoInstance]

Ids == {servers[i].id : i \in 1..Len(servers)}
InstanceOf(id) == servers[CHOOSE i \in 1..Len(servers) : servers[i].id = id]

\* str(uuid.uuid4())[:8]: an id no instance and no call in flight carries
FreshId ==
    LET used == Ids \cup {calls[c].id : c \in Calls}
    IN  CHOOSE n \in 1..(MaxInstances + NumCalls + 1) :
            n \notin used /\ \A m \in 1..(n - 1) : m \in used

\* process.poll() is None
Alive(pid) == pid \in chld

\* _is_port_available: bind((host, port)) succeeds
IsPortAvailable(port) == port \notin ext /\ port \notin chld

\* The references to the processes `dead`, once these have exited.
Exited(pid, dead) == IF pid \in dead THEN NoProc ELSE pid

\* start_server, lines 97-101: the first instance, in insertion order, of
\* this (repo_id, commit_hash); 0 when there is none
ExistingIndex(key) ==
    LET hits == {i \in 1..Len(servers) : servers[i].key = key}
    IN  IF hits = {} THEN 0 ELSE CHOOSE i \in hits : \A j \in hits : i <= j

\* A plausible slip: the status test compares with the initial status.
ReturnAsIsStarting(instance) == instance.status = "starting"

\* start_server, line 105: the running instance is returned as it is
ReturnAsIs(instance) == instance.status = "running"

\* StaticHTMLAdapter.start, line 31
ValidPort(port) == MinPort <= port /\ port <= MaxPort

\* A plausible slip: the counter is set to the port found, not past it.
GetNextAvailablePortNoAdvance(preferred) ==
    IF preferred # NoPort /\ IsPortAvailable(preferred)
    THEN [ok |-> TRUE, port |-> preferred, next |-> next_port]
    ELSE LET free == {p \in next_port..(next_port + MaxProbes - 1) : IsPortAvailable(p)}
         IN  IF free = {}
             THEN [ok |-> FALSE, port |-> 0, next |-> next_port]
             ELSE LET port == CHOOSE p \in free : \A q \in free : p <= q
                  IN  [ok |-> TRUE, port |-> port, next |-> port]

\* _get_next_available_port: the port returned (ok) or the RuntimeError (not
\* ok), and the value the counter has afterwards
GetNextAvailablePort(preferred) ==
    IF preferred # NoPort /\ IsPortAvailable(preferred)
    THEN [ok |-> TRUE, port |-> preferred, next |-> next_port]
    ELSE LET free == {p \in next_port..(next_port + MaxProbes - 1) : IsPortAvailable(p)}
         IN  IF free = {}
             THEN [ok |-> FALSE, port |-> 0, next |-> next_port]
             ELSE LET port == CHOOSE p \in free : \A q \in free : p <= q
                  IN  [ok |-> TRUE, port |-> port, next |-> port + 1]

\* A plausible slip: a restart builds a fresh instance (status "starting")
\* in place of the stored one.
RestartedFresh(instance, pid) ==
    [instance EXCEPT !.pid = pid, !.status = "starting", !.error = "none",
                     !.listed = <<>>]

\* start_server, lines 111-114
Restarted(instance, pid) ==
    [instance EXCEPT !.pid = pid, !.status = "running", !.error = "none",
                     !.listed = <<>>]

\* start_server, lines 118-119
RestartFailed(instance, error) ==
    [instance EXCEPT !.status = "failed", !.error = error, !.listed = <<>>]

ReplaceInstance(id, instance) ==
    [i \in 1..Len(servers) |-> IF servers[i].id = id THEN instance ELSE servers[i]]

\* A call that has reached its return statement returns before anything
\* else runs.
NoneReturning == \A c \in Calls : calls[c].pc # "done"

\* subprocess.Popen of http.server on `port` (static_html.py:57-64): the
\* child binds the port and lives, or cannot bind it and exits at once.
\* `taken`: another process bound the port after the orchestrator saw it free.
Spawn(c, call, port, taken) ==
    LET bound == IsPortAvailable(port) /\ ~taken
        pid == IF bound THEN port ELSE NoProc
    IN  /\ chld' = IF bound THEN chld \cup {port} ELSE chld
        /\ ext' = IF taken /\ IsPortAvailable(port) THEN ext \cup {port} ELSE ext
        /\ calls' = [calls EXCEPT ![c] =
                        [call EXCEPT !.pc = "probe", !.port = port, !.pid = pid,
                                     !.starts = @ + 1, !.bindfail = ~bound]]

\* start_server, lines 96-169, up to the first suspension (the sleep in
\* adapter.start): the lookup, the adapter choice, the port allocation (which
\* never suspends: the lock is free whenever it is taken) and the Popen.
StartServer(c, key, preferred, files) ==
    /\ NoneReturning
    /\ calls[c].pc = "idle"
    /\ LET i == ExistingIndex(key)
           call == [IdleCall EXCEPT !.key = key]
       IN  IF i # 0
           THEN LET instance == servers[i]
                    rcall == [call EXCEPT !.mode = "restart", !.id = instance.id,
                                          !.port = instance.port]
                IN  IF ReturnAsIs(instance)
                    THEN /\ calls' = [calls EXCEPT ![c] =
                                        [call EXCEPT !.pc = "done", !.mode = "existing",
                                                     !.id = instance.id,
                                                     !.port = instance.port,
                                                     !.result = instance]]
                         /\ UNCHANGED <<servers, next_port, chld, ext>>
                    ELSE IF ~ValidPort(instance.port)
                    THEN \* adapter.start raises ValueError: lines 117-121
                         LET failed == RestartFailed(instance, "invalid_port")
                         IN  /\ servers' = ReplaceInstance(instance.id, failed)
                             /\ calls' = [calls EXCEPT ![c] =
                                            [rcall EXCEPT !.pc = "done", !.result = failed]]
                             /\ UNCHANGED <<next_port, chld, ext>>
                    ELSE /\ Spawn(c, rcall, instance.port, FALSE)
                         /\ UNCHANGED <<servers, next_port>>
           ELSE /\ Len(servers) + Cardinality({d \in Calls \ {c} : calls[d].mode = "new"
                                                  /\ calls[d].pc = "probe"}) < MaxInstances
                /\ next_port <= PortCap
                /\ LET id == FreshId
                       ncall == [call EXCEPT !.mode = "new", !.id = id]
                       first == GetNextAvailablePort(preferred)
                   IN  IF ~Validates(files)
                       THEN \* _get_adapter raises ValueError: lines 128-141
                            LET failed == [id |-> id, key |-> key, port |-> 0,
                                           status |-> "failed", error |-> "no_index",
                                           pid |-> NoProc, listed |-> FileNames(files)]
                            IN  /\ servers' = Append(servers, failed)
                                /\ calls' = [calls EXCEPT ![c] =
                                               [ncall EXCEPT !.pc = "done",
                                                             !.result = failed]]
                                /\ UNCHANGED <<next_port, chld, ext>>
                       ELSE IF ~first.ok
                       THEN \* the RuntimeError of every attempt: `continue`;
                            \* attempts 2 and 3 probe the same ports again
                            LET failed == [id |-> id, key |-> key, port |-> 0,
                                           status |-> "failed", error |-> "exhausted",
                                           pid |-> NoProc, listed |-> <<>>]
                            IN  /\ servers' = Append(servers, failed)
                                /\ calls' = [calls EXCEPT ![c] =
                                               [ncall EXCEPT !.pc = "done",
                                                             !.allocs = max_retries,
                                                             !.result = failed]]
                                /\ UNCHANGED <<next_port, chld, ext>>
                       ELSE /\ next_port' = first.next
                            /\ \E taken \in BOOLEAN :
                                  Spawn(c, [ncall EXCEPT !.allocs = 1], first.port, taken)
                            /\ UNCHANGED servers
    /\ UNCHANGED <<rlVars, watchVars, laterVars>>

\* adapter.start after its sleep (static_html.py:71-83) and what start_server
\* does with the outcome: lines 110-121 for a restart, 169-190 for a new
\* instance.  A child that has exited makes adapter.start raise RuntimeError,
\* which is no OSError: the instance is failed and returned.
Probe(c) ==
    /\ NoneReturning
    /\ calls[c].pc = "probe"
    /\ LET call == calls[c]
           up == Alive(call.pid)
       IN  IF call.mode = "restart"
           THEN LET stored == IF call.id \in Ids THEN InstanceOf(call.id)
                              ELSE [NoInstance EXCEPT !.id = call.id, !.key = call.key,
                                                      !.port = call.port]
                    after == IF up THEN Restarted(stored, call.pid)
                             ELSE RestartFailed(stored, "exited")
                IN  /\ servers' = IF call.id \in Ids
                                  THEN ReplaceInstance(call.id, after) ELSE servers
                    /\ calls' = [calls EXCEPT ![c] =
                                    [call EXCEPT !.pc = "done", !.result = after]]
           ELSE LET instance == [id |-> call.id, key |-> call.key, port |-> call.port,
                                 status |-> IF up THEN "running" ELSE "failed",
                                 error |-> IF up THEN "none" ELSE "exited",
                                 pid |-> IF up THEN call.pid ELSE NoProc,
                                 listed |-> <<>>]
                IN  /\ servers' = Append(servers, instance)
                    /\ calls' = [calls EXCEPT ![c] =
                                    [call EXCEPT !.pc = "done", !.result = instance]]
    /\ UNCHANGED <<next_port, chld, ext>>
    /\ UNCHANGED <<rlVars, watchVars, laterVars>>

\* start_server returns its instance to the caller.
Return(c) ==
    /\ calls[c].pc = "done"
    /\ calls' = [calls EXCEPT ![c] = IdleCall]
    /\ UNCHANGED <<servers, next_port, chld, ext>>
    /\ UNCHANGED <<rlVars, watchVars, laterVars>>

\* The children adapter.stop terminates for the instances `ids`
\* (static_html.py:85-93): the living children of running instances.
Terminated(ids) ==
    {p \in chld : \E i \in 1..Len(servers) :
        /\ servers[i].id \in ids
        /\ servers[i].status = "running"
        /\ servers[i].pid = p}

\* The registry and the calls once the children `dead` have exited.
AfterExit(srv, dead) ==
    [i \in 1..Len(srv) |-> [srv[i] EXCEPT !.pid = Exited(@, dead)]]

CallsAfterExit(dead) ==
    [c \in Calls |-> [calls[c] EXCEPT !.pid = Exited(@, dead)]]

\* What stop_server leaves of one instance (lines 213-217).
Stopped(instance) == [instance EXCEPT !.status = "stopped"]

\* stop_server(server_id) for a known id
StopServer(id) ==
    /\ NoneReturning
    /\ id \in Ids
    /\ LET dead == Terminated({id})
       IN  /\ chld' = chld \ dead
           /\ servers' = AfterExit(ReplaceInstance(id, Stopped(InstanceOf(id))), dead)
           /\ calls' = CallsAfterExit(dead)
    /\ UNCHANGED <<next_port, ext>>
    /\ UNCHANGED <<rlVars, watchVars, laterVars>>

\* stop_all: stop_server for every id of the snapshot; nothing suspends
StopAll ==
    /\ NoneReturning
    /\ servers # <<>>
    /\ LET dead == Terminated(Ids)
       IN  /\ chld' = chld \ dead
           /\ servers' = AfterExit([i \in 1..Len(servers) |-> Stopped(servers[i])], dead)
           /\ calls' = CallsAfterExit(dead)
    /\ UNCHANGED <<next_port, ext>>
    /\ UNCHANGED <<rlVars, watchVars, laterVars>>

\* the ids remove_server is given: those of the registry and one it does
\* not know
ServerIds == Ids \cup {FreshId}

\* A plausible slip: the test names the initial status.
RemovableUnlessStarting(instance) == instance.status # "starting"

\* server_service.py:281-282: a running instance is not removed
Removable(instance) == instance.status # "running"

\* remove_server(server_id), server_service.py:275-285 behind the same tests
\* of routers/replay.py:503-520: an unknown id and a running instance are
\* refused and the registry is left as it is
RemoveServer(id) ==
    /\ NoneReturning
    /\ servers' = IF id \in Ids /\ Removable(InstanceOf(id))
                  THEN SelectSeq(servers, LAMBDA s : s.id # id)
                  ELSE servers
    /\ UNCHANGED <<next_port, calls, chld, ext>>
    /\ UNCHANGED <<rlVars, watchVars, laterVars>>

\* A child process exits on its own (crash, kill from outside).
ChildExit(p) ==
    /\ NoneReturning
    /\ p \in chld
    /\ chld' = chld \ {p}
    /\ servers' = AfterExit(servers, {p})
    /\ calls' = CallsAfterExit({p})
    /\ UNCHANGED <<next_port, ext>>
    /\ UNCHANGED <<rlVars, watchVars, laterVars>>

\* Another process binds a free port, or releases the port it holds.
ExtBind(port) ==
    /\ NoneReturning
    /\ IsPortAvailable(port)
    /\ ext' = ext \cup {port}
    /\ UNCHANGED <<servers, next_port, calls, chld>>
    /\ UNCHANGED <<rlVars, watchVars, laterVars>>

ExtRelease(port) ==
    /\ NoneReturning
    /\ port \in ext
    /\ ext' = ext \ {port}
    /\ UNCHANGED <<servers, next_port, calls, chld>>
    /\ UNCHANGED <<rlVars, watchVars, laterVars>>

\* No other start_server call is in flight.
OnlyCall(c) == \A d \in Calls \ {c} : calls[d].pc = "idle"

\* The calls are told apart by the slot they take: the lowest free one.
NextCall(c) == calls[c].pc = "idle" /\ \A d \in 1..(c - 1) : calls[d].pc # "idle"

OrchNext ==
    \/ \E c \in Calls, key \in Keys, preferred \in PreferredPorts, files \in Listings :
          OnlyCall(c) /\ NextCall(c) /\ StartServer(c, key, preferred, files)
    \/ \E c \in Calls : Probe(c)
    \/ \E c \in Calls : Return(c)
    \/ \E id \in Ids : StopServer(id)
    \/ StopAll
    \/ \E id \in ServerIds : RemoveServer(id)
    \/ \E p \in chld : ChildExit(p)
    \/ \E port \in WinPorts : ExtBind(port)
    \/ \E port \in WinPorts : ExtRelease(port)

\* start_server calls overlap: a second call starts while the first sleeps
\* in adapter.start (the routes of routers/replay.py take no lock).
OrchConcNext ==
    \/ \E c \in Calls, key \in Keys, preferred \in PreferredPorts, files \in Listings :
          NextCall(c) /\ StartServer(c, key, preferred, files)
    \/ \E c \in Calls : Probe(c)
    \/ \E c \in Calls : Return(c)
    \/ \E id \in Ids : StopServer(id)
    \/ StopAll

(***************************************************************************)
(*              WATCHLIST UPDATE ENGINE (routers/watchlist.py)             *)
(***************************************************************************)

\* rows the table tracked_repos can hold
MaxRepos == 2
\* the last instant of the clock
MaxClock == 2

RepoIds == 1..MaxRepos

\* RepoStatus.NOT_CHECKED
NOT_CHECKED == "Not Checked"
\* latest_version IS NULL
NoVersion == "None"
\* tag names of releases
Tags == {"v1", "v2"}

\* fetch_latest_release: None (no release, an error), or the release
NoRelease == [found |-> FALSE, tag_name |-> ""]
Releases == {NoRelease} \cup {[found |-> TRUE, tag_name |-> t] : t \in Tags}

NoRepo == [present |-> FALSE, current_version |-> "", latest_version |-> NoVersion,
           last_checked |-> 0]
NoUpdateInfo == [has_latest |-> FALSE, new_latest |-> "", updated |-> FALSE,
                 set_current |-> FALSE]
IdleRun == [pc |-> "idle", repos |-> [id \in RepoIds |-> NoRepo],
            results |-> [id \in RepoIds |-> NoUpdateInfo], updates_found |-> 0]

Present(rows) == {id \in RepoIds : rows[id].present}

\* INTEGER PRIMARY KEY: the largest rowid + 1
NewRepoId ==
    IF Present(tracked) = {} THEN 1
    ELSE (CHOOSE id \in Present(tracked) : \A o \in Present(tracked) : o <= id) + 1

NewRepo(current_version) ==
    [present |-> TRUE, current_version |-> current_version,
     latest_version |-> NoVersion, last_checked |-> now]

\* A plausible slip: the stored version is compared with itself.
CheckRepoUpdateNeverUpdated(current_version, latest_version, release_data) ==
    IF release_data.found
    THEN [has_latest |-> TRUE, new_latest |-> release_data.tag_name,
          updated |-> latest_version # latest_version,
          set_current |-> current_version = NOT_CHECKED]
    ELSE NoUpdateInfo

\* _check_repo_update
CheckRepoUpdate(current_version, latest_version, release_data) ==
    IF release_data.found
    THEN [has_latest |-> TRUE, new_latest |-> release_data.tag_name,
          updated |-> latest_version # release_data.tag_name,
          set_current |-> current_version = NOT_CHECKED]
    ELSE NoUpdateInfo

\* bool(update_info.get("new_latest"))
HasNewLatest(update_info) == update_info.has_latest /\ update_info.new_latest # ""

\* one turn of the loop that applies the results to the loaded objects
ApplyUpdate(repo, update_info) ==
    IF repo.present /\ HasNewLatest(update_info)
    THEN [repo EXCEPT
            !.latest_version = IF update_info.updated THEN update_info.new_latest ELSE @,
            !.current_version = IF update_info.set_current THEN update_info.new_latest ELSE @,
            !.last_checked = now]
    ELSE repo

\* The UPDATE of the commit carries the attributes the loop changed.
MergeRepo(row, loaded, cur) ==
    [present |-> row.present,
     current_version |-> IF cur.current_version # loaded.current_version
                         THEN cur.current_version ELSE row.current_version,
     latest_version  |-> IF cur.latest_version # loaded.latest_version
                         THEN cur.latest_version ELSE row.latest_version,
     last_checked    |-> IF cur.last_checked # loaded.last_checked
                         THEN cur.last_checked ELSE row.last_checked]

\* add_by_url for a repository not yet tracked
AddByUrl ==
    /\ NewRepoId \in RepoIds
    /\ tracked' = [tracked EXCEPT ![NewRepoId] = NewRepo(NOT_CHECKED)]
    /\ UNCHANGED <<wrun, now>>
    /\ UNCHANGED <<rlVars, orchVars, laterVars>>

\* import_watchlist of one item that carries its current_version
ImportWatchlist(current_version) ==
    /\ NewRepoId \in RepoIds
    /\ tracked' = [tracked EXCEPT ![NewRepoId] = NewRepo(current_version)]
    /\ UNCHANGED <<wrun, now>>
    /\ UNCHANGED <<rlVars, orchVars, laterVars>>

\* remove_repo
RemoveRepo(id) ==
    /\ tracked[id].present
    /\ tracked' = [tracked EXCEPT ![id] = NoRepo]
    /\ UNCHANGED <<wrun, now>>
    /\ UNCHANGED <<rlVars, orchVars, laterVars>>

\* check_updates: select(TrackedRepo)
CheckUpdatesLoad ==
    /\ wrun.pc = "idle"
    /\ wrun' = [IdleRun EXCEPT !.pc = "gather", !.repos = tracked]
    /\ UNCHANGED <<tracked, now>>
    /\ UNCHANGED <<rlVars, orchVars, laterVars>>

\* check_updates: asyncio.gather of _check_repo_update over the loaded repos
CheckUpdatesGather ==
    /\ wrun.pc = "gather"
    /\ \E release_data \in [RepoIds -> Releases] :
          /\ \A id \in RepoIds : ~wrun.repos[id].present => release_data[id] = NoRelease
          /\ wrun' = [wrun EXCEPT
                !.pc = "apply",
                !.results = [id \in RepoIds |->
                    IF wrun.repos[id].present
                    THEN CheckRepoUpdate(wrun.repos[id].current_version,
                                         wrun.repos[id].latest_version, release_data[id])
                    ELSE NoUpdateInfo]]
    /\ UNCHANGED <<tracked, now>>
    /\ UNCHANGED <<rlVars, orchVars, laterVars>>

\* check_updates: the loop over the results, the commit and the return
CheckUpdatesApply ==
    /\ wrun.pc = "apply"
    /\ LET cur == [id \in RepoIds |-> ApplyUpdate(wrun.repos[id], wrun.results[id])]
           counted == {id \in RepoIds : /\ wrun.repos[id].present
                                        /\ HasNewLatest(wrun.results[id])
                                        /\ wrun.results[id].updated}
       IN  /\ tracked' = [id \in RepoIds |->
                            IF wrun.repos[id].present /\ tracked[id].present
                            THEN MergeRepo(tracked[id], wrun.repos[id], cur[id])
                            ELSE tracked[id]]
           /\ wrun' = [wrun EXCEPT !.pc = "done", !.repos = cur,
                                   !.updates_found = Cardinality(counted)]
    /\ UNCHANGED now
    /\ UNCHANGED <<rlVars, orchVars, laterVars>>

\* the response of check_updates has been sent
CheckUpdatesReturn ==
    /\ wrun.pc = "done"
    /\ wrun' = IdleRun
    /\ UNCHANGED <<tracked, now>>
    /\ UNCHANGED <<rlVars, orchVars, laterVars>>

\* datetime.now(timezone.utc) moves on
Tick ==
    /\ now < MaxClock
    /\ wrun.pc # "done"
    /\ now' = now + 1
    /\ UNCHANGED <<tracked, wrun>>
    /\ UNCHANGED <<rlVars, orchVars, laterVars>>

\* No check_updates run is in flight.
NoRun == wrun.pc = "idle"

\* The watchlist handlers, one request after another
WatchNext ==
    \/ NoRun /\ AddByUrl
    \/ \E current_version \in Tags : NoRun /\ ImportWatchlist(current_version)
    \/ \E id \in RepoIds : NoRun /\ RemoveRepo(id)
    \/ CheckUpdatesLoad
    \/ CheckUpdatesGather
    \/ CheckUpdatesApply
    \/ CheckUpdatesReturn
    \/ Tick

(***************************************************************************)
(*          GITHUB CLIENT ADMISSION (github_service.py, watchlist.py)      *)
(***************************************************************************)

\* asyncio.Semaphore(5) of GitHubService
SemLimit == 5
\* asyncio.Semaphore(5) of one check_updates call
ProbeLimit == 5
\* coroutines that call the client at one time
MaxTasks == 6
\* check_updates calls handled at one time
NumRuns == 2

Runs == 1..NumRuns

NoTasks == [held |-> 0, inflight |-> 0]

RECURSIVE Sum(_, _)
\* the sum of f over the set S of its domain
Sum(f, S) ==
    IF S = {} THEN 0
    ELSE LET x == CHOOSE y \in S : TRUE IN f[x] + Sum(f, S \ {x})

\* coroutines that are inside a handler and may call the client
Tasks == out.direct + out.sync.held + Sum([r \in Runs |-> out.probes[r].held], Runs)

\* requests handed to client.request that have not returned
InFlight == out.direct + out.sync.inflight
            + Sum([r \in Runs |-> out.probes[r].inflight], Runs)

\* _request called by a handler coroutine (fetch_user_profile,
\* fetch_user_repos, fetch_commit_count ...): client.request is awaited
DirectSend ==
    /\ Tasks < MaxTasks
    /\ out' = [out EXCEPT !.direct = @ + 1]
    /\ UNCHANGED exceptClient

\* the response of such a request arrives
DirectReceive ==
    /\ out.direct > 0
    /\ out' = [out EXCEPT !.direct = @ - 1]
    /\ UNCHANGED exceptClient

\* _sync_repo_commits: async with self._semaphore
SyncAcquire ==
    /\ Tasks < MaxTasks
    /\ out.sync.held < SemLimit
    /\ out' = [out EXCEPT !.sync.held = @ + 1]
    /\ UNCHANGED exceptClient

\* _sync_repo_commits: fetch_commits of one page calls _request
SyncSend ==
    /\ out.sync.inflight < out.sync.held
    /\ out' = [out EXCEPT !.sync.inflight = @ + 1]
    /\ UNCHANGED exceptClient

\* the page arrives
SyncReceive ==
    /\ out.sync.inflight > 0
    /\ out' = [out EXCEPT !.sync.inflight = @ - 1]
    /\ UNCHANGED exceptClient

\* _sync_repo_commits: the last page was handled, the semaphore is released
SyncRelease ==
    /\ out.sync.inflight < out.sync.held
    /\ out' = [out EXCEPT !.sync.held = @ - 1]
    /\ UNCHANGED exceptClient

\* _check_repo_update of run r: async with concurrency_limit
ProbeAcquire(r) ==
    /\ Tasks < MaxTasks
    /\ out.probes[r].held < ProbeLimit
    /\ out' = [out EXCEPT !.probes[r].held = @ + 1]
    /\ UNCHANGED exceptClient

\* _check_repo_update of run r: fetch_latest_release calls _request
ProbeSend(r) ==
    /\ out.probes[r].inflight < out.probes[r].held
    /\ out' = [out EXCEPT !.probes[r].inflight = @ + 1]
    /\ UNCHANGED exceptClient

\* the release arrives, the worker leaves the semaphore of its run
ProbeReceive(r) ==
    /\ out.probes[r].inflight > 0
    /\ out' = [out EXCEPT !.probes[r].inflight = @ - 1, !.probes[r].held = @ - 1]
    /\ UNCHANGED exceptClient

ClientNext ==
    \/ DirectSend
    \/ DirectReceive
    \/ SyncAcquire
    \/ SyncSend
    \/ SyncReceive
    \/ SyncRelease
    \/ \E r \in Runs : ProbeAcquire(r)
    \/ \E r \in Runs : ProbeSend(r)
    \/ \E r \in Runs : ProbeReceive(r)

(***************************************************************************)
(*       RESPONSE CACHE (cache_service.py, routers/discovery.py)           *)
(***************************************************************************)

\* handlers that use the cache at one time
NumCacheReq == 2
\* rows the table cache_entries can hold
MaxEntries == 3
\* the last instant of the cache clock
MaxTime == 2
\* ttl_minutes, in instants of the cache clock
TtlTicks == 1

CReqs == 1..NumCacheReq

Users == {"octocat"}
Kinds == {"profile", "repos", "profile_readme"}

\* get_cached returns None
Miss == "None"
\* a user without repositories: fetch_user_repos returns []
EmptyList == "[]"
\* {"error": status} returned by github_service.fetch_user
ErrorPayload == "error"
ProfilePayloads == {"profile_a"}
RepoPayloads == {"repos_a", EmptyList}
ReadmePayloads == {"readme_a"}
PayloadsOf(kind) ==
    IF kind = "profile" THEN ProfilePayloads
    ELSE IF kind = "repos" THEN RepoPayloads ELSE ReadmePayloads

IdleReq == [pc |-> "idle", op |-> "", user |-> "", todo |-> <<>>, entry |-> 0,
            loaded |-> Miss, stamp |-> 0, ret |-> <<>>, err |-> FALSE, outbound |-> 0]

\* select(CacheEntry).where(username == ..., endpoint_type == ...)
Matching(rows, user, kind) ==
    {i \in 1..Len(rows) : rows[i].username = user /\ rows[i].endpoint_type = kind}

\* A plausible slip: an entry as old as the TTL is expired already.
ExpiredAtTtl(last_updated, t) == t - last_updated >= TtlTicks

\* get_cached, lines 28-35
Expired(last_updated, t) == t - last_updated > TtlTicks

\* get_cached on the rows at time t: scalar_one_or_none raises when more than
\* one row matches
GetCached(rows, user, kind, t) ==
    LET m == Matching(rows, user, kind)
    IN  IF Cardinality(m) > 1 THEN [err |-> TRUE, data |-> Miss]
        ELSE IF m = {} THEN [err |-> FALSE, data |-> Miss]
        ELSE LET entry == rows[CHOOSE i \in m : TRUE]
             IN  IF Expired(entry.last_updated, t)
                 THEN [err |-> FALSE, data |-> Miss]
                 ELSE [err |-> FALSE, data |-> entry.data]

\* bool(payload): None, [] and {} are false
Truthy(data) == data \notin {Miss, EmptyList}

\* cache_service.get_cached called by a handler
Get(h, user, kind) ==
    /\ creq[h].pc = "idle"
    /\ LET got == GetCached(cache, user, kind, ctime)
       IN  creq' = [creq EXCEPT ![h] = [IdleReq EXCEPT
                        !.pc = "done", !.op = "get", !.user = user,
                        !.ret = <<got.data>>, !.err = got.err]]
    /\ UNCHANGED <<cache, ctime>>
    /\ UNCHANGED exceptCache

\* cache_service.set_cached called by a handler
Put(h, user, kind, data) ==
    /\ creq[h].pc = "idle"
    /\ creq' = [creq EXCEPT ![h] = [IdleReq EXCEPT
                    !.pc = "select", !.op = "put", !.user = user,
                    !.todo = <<[kind |-> kind, data |-> data]>>]]
    /\ UNCHANGED <<cache, ctime>>
    /\ UNCHANGED exceptCache

\* fetch_user, lines 41-52: the three reads and the decision
FetchUser(h, user, refresh) ==
    /\ creq[h].pc = "idle"
    /\ LET profile == GetCached(cache, user, "profile", ctime)
           repos == GetCached(cache, user, "repos", ctime)
           readme == GetCached(cache, user, "profile_readme", ctime)
           req == [IdleReq EXCEPT !.op = "fetch", !.user = user]
       IN  creq' = [creq EXCEPT ![h] =
              IF refresh THEN [req EXCEPT !.pc = "upstream"]
              ELSE IF profile.err \/ repos.err \/ readme.err
                   THEN [req EXCEPT !.pc = "done", !.err = TRUE]
              ELSE IF Truthy(profile.data) /\ Truthy(repos.data)
                   THEN [req EXCEPT !.pc = "done",
                                    !.ret = <<profile.data, repos.data, readme.data>>]
              ELSE [req EXCEPT !.pc = "upstream"]]
    /\ UNCHANGED <<cache, ctime>>
    /\ UNCHANGED exceptCache

\* fetch_user, lines 54-64: the answers of GitHub; the profile only when it
\* is an error
FetchUpstream(h, profile, repos, readme) ==
    /\ creq[h].pc = "upstream"
    /\ creq' = [creq EXCEPT ![h] =
          IF profile = ErrorPayload
          THEN [@ EXCEPT !.pc = "done", !.ret = <<profile>>, !.outbound = 1]
          ELSE [@ EXCEPT !.pc = "select",
                         !.ret = <<profile, repos, readme>>,
                         !.outbound = 3,
                         !.todo = <<[kind |-> "profile", data |-> profile],
                                    [kind |-> "repos", data |-> repos]>>
                                  \o (IF Truthy(readme)
                                      THEN <<[kind |-> "profile_readme", data |-> readme]>>
                                      ELSE <<>>)]]
    /\ UNCHANGED <<cache, ctime>>
    /\ UNCHANGED exceptCache

\* set_cached, lines 43-60: the select, then the entry is changed or made
\* with the time of this moment
PutSelect(h) ==
    /\ creq[h].pc = "select"
    /\ LET m == Matching(cache, creq[h].user, Head(creq[h].todo).kind)
       IN  creq' = [creq EXCEPT ![h] =
              IF Cardinality(m) > 1 THEN [@ EXCEPT !.pc = "done", !.err = TRUE]
              ELSE IF m = {} THEN [@ EXCEPT !.pc = "commit", !.entry = 0,
                                            !.loaded = Miss, !.stamp = ctime]
              ELSE LET i == CHOOSE j \in m : TRUE
                   IN  [@ EXCEPT !.pc = "commit", !.entry = i,
                                 !.loaded = cache[i].data, !.stamp = ctime]]
    /\ UNCHANGED <<cache, ctime>>
    /\ UNCHANGED exceptCache

\* set_cached, line 62: the commit sends the UPDATE (with the attributes that
\* changed) or the INSERT
PutCommit(h) ==
    /\ creq[h].pc = "commit"
    /\ LET put == Head(creq[h].todo)
           rest == Tail(creq[h].todo)
       IN  /\ IF creq[h].entry # 0
              THEN cache' = [cache EXCEPT ![creq[h].entry] =
                                [@ EXCEPT !.data = IF put.data # creq[h].loaded
                                                   THEN put.data ELSE @,
                                          !.last_updated = creq[h].stamp]]
              ELSE /\ Len(cache) < MaxEntries
                   /\ cache' = Append(cache, [username |-> creq[h].user,
                                              endpoint_type |-> put.kind,
                                              data |-> put.data,
                                              last_updated |-> creq[h].stamp])
           /\ creq' = [creq EXCEPT ![h] =
                          [@ EXCEPT !.todo = rest,
                                    !.pc = IF rest = <<>> THEN "done" ELSE "select"]]
    /\ UNCHANGED ctime
    /\ UNCHANGED exceptCache

\* the handler has answered
CacheReturn(h) ==
    /\ creq[h].pc = "done"
    /\ creq' = [creq EXCEPT ![h] = IdleReq]
    /\ UNCHANGED <<cache, ctime>>
    /\ UNCHANGED exceptCache

\* datetime.now(timezone.utc) moves on
CacheTick ==
    /\ ctime < MaxTime
    /\ \A h \in CReqs : creq[h].pc # "done"
    /\ ctime' = ctime + 1
    /\ UNCHANGED <<cache, creq>>
    /\ UNCHANGED exceptCache

\* No other handler is at work.
AloneAtCache(h) == \A g \in CReqs \ {h} : creq[g].pc = "idle"
\* No handler is about to answer.
NoneAnswering == \A h \in CReqs : creq[h].pc # "done"
\* The handlers are told apart by the slot they take: the lowest free one.
NextReq(h) == creq[h].pc = "idle" /\ \A g \in 1..(h - 1) : creq[g].pc # "idle"

\* the steps of a handler that has started
CacheStep(h) ==
    \/ \E profile \in ProfilePayloads \cup {ErrorPayload}, repos \in RepoPayloads,
          readme \in ReadmePayloads \cup {Miss} : FetchUpstream(h, profile, repos, readme)
    \/ PutSelect(h)
    \/ PutCommit(h)
    \/ CacheReturn(h)

\* the handlers one after another
CacheSeqNext ==
    \/ \E h \in CReqs, user \in Users, kind \in Kinds :
          AloneAtCache(h) /\ NextReq(h) /\ Get(h, user, kind)
    \/ \E h \in CReqs, user \in Users, kind \in Kinds :
          \E data \in PayloadsOf(kind) :
              AloneAtCache(h) /\ NextReq(h) /\ Put(h, user, kind, data)
    \/ \E h \in CReqs, user \in Users, refresh \in BOOLEAN :
          AloneAtCache(h) /\ NextReq(h) /\ FetchUser(h, user, refresh)
    \/ \E h \in CReqs : CacheStep(h)
    \/ CacheTick

\* the kinds the interleaved handlers read and write
ContendedKinds == {"repos"}

\* get_cached and set_cached called by handlers that interleave at the awaits
CacheNext ==
    \/ \E h \in CReqs, user \in Users, kind \in ContendedKinds :
          NoneAnswering /\ NextReq(h) /\ Get(h, user, kind)
    \/ \E h \in CReqs, user \in Users, kind \in ContendedKinds :
          \E data \in PayloadsOf(kind) :
              NoneAnswering /\ NextReq(h) /\ Put(h, user, kind, data)
    \/ \E h \in CReqs : PutSelect(h)
    \/ \E h \in CReqs : PutCommit(h)
    \/ \E h \in CReqs : CacheReturn(h)
    \/ CacheTick

(***************************************************************************)
(*        TOKEN RESOLVER (token_service.py, utils/crypto.py)               *)
(***************************************************************************)

\* the longest token text
MaxTokenLen == 2

Chars == {" ", "a"}

RECURSIVE StringsUpTo(_)
\* the texts of at most n characters
StringsUpTo(n) ==
    IF n = 0 THEN {<<>>}
    ELSE LET shorter == StringsUpTo(n - 1)
         IN  shorter \cup {Append(s, ch) : s \in {t \in shorter : Len(t) = n - 1}, ch \in Chars}

Strings == StringsUpTo(MaxTokenLen)

\* None
NoToken == <<"None">>

\* GITHUB_TOKEN of the environment the process started in
EnvTokens == {NoToken, <<>>, <<"a">>, <<" ">>}

\* the Fernet keys a process may have been started with
FernetKeys == {"k1", "k2"}

RECURSIVE LStrip(_)
LStrip(s) == IF s # <<>> /\ Head(s) = " " THEN LStrip(Tail(s)) ELSE s

RECURSIVE RStrip(_)
RStrip(s) == IF s # <<>> /\ s[Len(s)] = " " THEN RStrip(SubSeq(s, 1, Len(s) - 1)) ELSE s

\* str.strip
Strip(s) == RStrip(LStrip(s))

\* app_config has no row of key github_token
NoRow == [kind |-> "absent", key |-> "", plain |-> <<>>]
\* the value ""
EmptyValue == [kind |-> "empty", key |-> "", plain |-> <<>>]
\* a value that is no Fernet token
Garbage == [kind |-> "garbage", key |-> "", plain |-> <<>>]

\* CryptoManager.encrypt
Encrypt(plaintext, key) ==
    IF plaintext = <<>> THEN EmptyValue
    ELSE [kind |-> "cipher", key |-> key, plain |-> plaintext]

\* CryptoManager.decrypt: "" for "" and for what the key cannot decrypt
Decrypt(ciphertext, key) ==
    IF ciphertext.kind = "cipher" /\ ciphertext.key = key THEN ciphertext.plain ELSE <<>>

Resolved(token, source) ==
    [token |-> token, source |-> source, raised |-> FALSE]

\* A plausible slip: the environment is asked before the request.
GetEffectiveTokenEnvFirst(request_token, env_token, config, key) ==
    IF env_token # NoToken /\ env_token # <<>>
    THEN Resolved(env_token, "env")
    ELSE IF request_token # NoToken /\ Strip(request_token) # <<>>
    THEN Resolved(Strip(request_token), "request")
    ELSE IF config.kind \notin {"absent", "empty"} /\ Decrypt(config, key) # <<>>
    THEN Resolved(Decrypt(config, key), "db")
    ELSE Resolved(NoToken, "none")

\* get_effective_token
GetEffectiveToken(request_token, env_token, config, key) ==
    IF request_token # NoToken /\ Strip(request_token) # <<>>
    THEN Resolved(Strip(request_token), "request")
    ELSE IF env_token # NoToken /\ env_token # <<>>
    THEN Resolved(env_token, "env")
    ELSE IF config.kind \notin {"absent", "empty"} /\ Decrypt(config, key) # <<>>
    THEN Resolved(Decrypt(config, key), "db")
    ELSE Resolved(NoToken, "none")

NoResolution == [request |-> NoToken, token |-> NoToken, source |-> "", raised |-> FALSE]

\* get_effective_token called by a handler with the token of its request
ResolveToken(request_token) ==
    /\ tres' = [request |-> request_token]
               @@ GetEffectiveToken(request_token, tcfg.env, tcfg.stored, tcfg.key)
    /\ UNCHANGED tcfg
    /\ UNCHANGED exceptToken

\* save_token (routers/settings.py)
SaveToken(token) ==
    /\ tcfg' = [tcfg EXCEPT !.stored = Encrypt(Strip(token), tcfg.key)]
    /\ UNCHANGED tres
    /\ UNCHANGED exceptToken

\* The process is started again with another key (FERNET_KEY changed, or
\* data/secret.key replaced); the environment token may change with it.
Restart(key, env_token) ==
    /\ tcfg' = [tcfg EXCEPT !.key = key, !.env = env_token]
    /\ tres' = NoResolution
    /\ UNCHANGED exceptToken

\* The stored value is damaged or was written by hand.
Corrupt ==
    /\ tcfg.stored.kind = "cipher"
    /\ tcfg' = [tcfg EXCEPT !.stored = Garbage]
    /\ UNCHANGED tres
    /\ UNCHANGED exceptToken

TokenNext ==
    \/ \E request_token \in Strings \cup {NoToken} : ResolveToken(request_token)
    \/ \E token \in Strings : SaveToken(token)
    \/ \E key \in FernetKeys, env_token \in EnvTokens : Restart(key, env_token)
    \/ Corrupt

(***************************************************************************)
(*           SCOPED ENVIRONMENT VARIABLES (env_service.py)                 *)
(***************************************************************************)

\* rows the table env_vars can hold
MaxEnvRows == 3

EnvKeys == {"A", "B"}
EnvValues == {<<>>, <<"a">>, <<"a", "a">>}
\* a key that get_merged_vars did not meet
Unset == <<"None">>
\* repo_id / commit_hash not given
NoRepoId == 0
NoCommit == ""

\* the (scope, repo_id, commit_hash) the routers of routers/envvars.py pass
Targets ==
    { [scope |-> "global", repo_id |-> NoRepoId, commit_hash |-> NoCommit],
      [scope |-> "project", repo_id |-> 7, commit_hash |-> NoCommit],
      [scope |-> "commit", repo_id |-> 7, commit_hash |-> "abc1234"],
      [scope |-> "commit", repo_id |-> 7, commit_hash |-> "def5678"],
      [scope |-> "commit", repo_id |-> 8, commit_hash |-> "abc1234"] }

\* the bodies of the PUT requests
VarLists ==
    { <<>>,
      <<[key |-> "A", value |-> <<"a">>]>>,
      <<[key |-> "B", value |-> <<"a", "a">>]>>,
      <<[key |-> "A", value |-> <<"a", "a">>]>>,
      <<[key |-> "B", value |-> <<"a">>], [key |-> "B", value |-> <<>>]>> }

\* the text of a stored value
RawText(value) == IF value.kind = "cipher" THEN <<"#">> \o value.plain ELSE value.plain

\* _decrypt_value: what cannot be decrypted is returned as it is stored
DecryptValue(value) ==
    IF value.kind = "empty" THEN <<>>
    ELSE LET decrypted == Decrypt(value, tcfg.key)
         IN  IF decrypted = <<>> THEN RawText(value) ELSE decrypted

\* _encrypt_value
EncryptValue(plaintext) == Encrypt(plaintext, tcfg.key)

\* A plausible slip: the commit hash is left out of the conditions.
InScopeAnyCommit(row, scope, repo_id, commit_hash) ==
    /\ row.scope = scope
    /\ repo_id # NoRepoId => row.repository_id = repo_id

\* the conditions of set_vars, lines 95-99
InScope(row, scope, repo_id, commit_hash) ==
    /\ row.scope = scope
    /\ repo_id # NoRepoId => row.repository_id = repo_id
    /\ commit_hash # NoCommit => row.commit_hash = commit_hash

RECURSIVE Decrypted(_)
\* [{"key": v.key, "value": self._decrypt_value(v.value)} for v in vars]
Decrypted(rows) ==
    IF rows = <<>> THEN <<>>
    ELSE <<[key |-> Head(rows).key, value |-> DecryptValue(Head(rows).value)]>>
         \o Decrypted(Tail(rows))

\* get_global_vars
GetGlobalVars(rows) ==
    LET hit(row) == row.scope = "global" IN Decrypted(SelectSeq(rows, hit))

\* get_project_vars
GetProjectVars(rows, repo_id) ==
    LET hit(row) == row.scope = "project" /\ row.repository_id = repo_id
    IN  Decrypted(SelectSeq(rows, hit))

\* get_commit_vars
GetCommitVars(rows, repo_id, commit_hash) ==
    LET hit(row) == /\ row.scope = "commit"
                    /\ row.repository_id = repo_id
                    /\ row.commit_hash = commit_hash
    IN  Decrypted(SelectSeq(rows, hit))

RECURSIVE Overlay(_, _)
\* for var in vars: merged[var["key"]] = var["value"]
Overlay(merged, var_list) ==
    IF var_list = <<>> THEN merged
    ELSE Overlay([merged EXCEPT ![Head(var_list).key] = Head(var_list).value], Tail(var_list))

\* A plausible slip: the project values are laid over the commit values.
GetMergedVarsProjectLast(rows, repo_id, commit_hash) ==
    Overlay(Overlay(Overlay([k \in EnvKeys |-> Unset], GetGlobalVars(rows)),
                    GetCommitVars(rows, repo_id, commit_hash)),
            GetProjectVars(rows, repo_id))

\* get_merged_vars
GetMergedVars(rows, repo_id, commit_hash) ==
    Overlay(Overlay(Overlay([k \in EnvKeys |-> Unset], GetGlobalVars(rows)),
                    GetProjectVars(rows, repo_id)),
            GetCommitVars(rows, repo_id, commit_hash))

RECURSIVE NewRows(_, _)
\* EnvVar(key, value = encrypted, scope, repository_id, commit_hash) per item
NewRows(var_list, target) ==
    IF var_list = <<>> THEN <<>>
    ELSE <<[key |-> Head(var_list).key, value |-> EncryptValue(Head(var_list).value),
            scope |-> target.scope, repository_id |-> target.repo_id,
            commit_hash |-> target.commit_hash]>>
         \o NewRows(Tail(var_list), target)

NoRead == [op |-> "", target |-> [scope |-> "", repo_id |-> NoRepoId, commit_hash |-> NoCommit],
           request |-> <<>>, vars |-> <<>>, merged |-> [k \in EnvKeys |-> Unset]]

\* set_vars: the rows of the scope are deleted, the new ones inserted, all
\* in one commit; the created rows are returned decrypted
SetVars(target, var_list) ==
    LET keep(row) == ~InScope(row, target.scope, target.repo_id, target.commit_hash)
        kept == SelectSeq(envrows, keep)
    IN  /\ Len(kept) + Len(var_list) <= MaxEnvRows
        /\ envrows' = kept \o NewRows(var_list, target)
        /\ eres' = [NoRead EXCEPT !.op = "set", !.target = target,
                                  !.request = var_list,
                                  !.vars = Decrypted(NewRows(var_list, target))]
        /\ UNCHANGED exceptEnv

\* get_merged_vars for a commit of a repository
ReadMerged(target) ==
    /\ target.scope = "commit"
    /\ eres' = [NoRead EXCEPT !.op = "merged", !.target = target,
                  !.merged = GetMergedVars(envrows, target.repo_id, target.commit_hash)]
    /\ UNCHANGED envrows
    /\ UNCHANGED exceptEnv

EnvNext ==
    \/ \E target \in Targets, var_list \in VarLists : SetVars(target, var_list)
    \/ \E target \in Targets : ReadMerged(target)

(***************************************************************************)
(*                          COMMIT WORKSPACES                              *)
(*  services/workspace_service.py, services/git_service.py                 *)
(***************************************************************************)

\* create_workspace calls in flight at once (routers/replay.py:433: the
\* handler awaits the checkout, which runs in the default thread pool)
NumWsCalls == 2
\* longest commit hash drawn besides LongHash
MaxHashLen == 2
\* members of the archive of a commit
NumMembers == 2
\* workspace directories on disk or being made at once
MaxWorkspaces == 2

WsCalls == 1..NumWsCalls

ArchiveMembers == 1..NumMembers

\* workspace_service.py:21: short_hash = commit_hash[:7]
ShortLen == 7

\* characters of a commit hash: one alphanumeric and the two that name
\* directories
HashChars == {"a", "."}

\* str.isalnum() holds of these characters only
AlnumChars == {"a"}

RECURSIVE HashesUpTo(_)
HashesUpTo(n) ==
    IF n = 0 THEN {<<>>}
    ELSE LET shorter == HashesUpTo(n - 1)
         IN shorter \cup {h \o <<ch>> : h \in {g \in shorter : Len(g) = n - 1},
                                       ch \in HashChars}

\* a hash longer than the short hash
LongHash == [i \in 1..(ShortLen + 1) |-> "a"]

CommitHashes == HashesUpTo(MaxHashLen) \cup {LongHash}

\* path segments are strings of characters
Dot == <<".">>
DotDot == <<".", ".">>
Site == <<"s">>

\* settings.workspaces_dir (config.py:30): <app>/workspaces
WorkspacesDir == << <<"g">>, <<"w">> >>

\* the paths add_local_repo and clone_remote_repo are given
\* (routers/replay.py:103, 146), as pathlib parses them: segments, "."
\* segments dropped
RepoPaths == {<<>>, <<Site>>, <<Site, DotDot>>}

\* git_service.py:26-28: Path(path).name, the last segment, "" for the root
GetRepoName(path) == IF path = <<>> THEN <<>> ELSE path[Len(path)]

\* Repository.name of the repositories that can be registered
\* (routers/replay.py:127, 163)
RepoNames == {GetRepoName(path) : path \in RepoPaths}

\* str.isalnum(): non-empty and every character alphanumeric
IsAlnum(s) == Len(s) > 0 /\ \A i \in 1..Len(s) : s[i] \in AlnumChars

\* workspace_service.py:21-22, once the hash passed line 18: pathlib drops
\* an empty segment on joining
JoinPath(base, segment) == IF segment = <<>> THEN base ELSE base \o <<segment>>

ShortHash(commit_hash) ==
    SubSeq(commit_hash, 1, IF Len(commit_hash) < ShortLen THEN Len(commit_hash) ELSE ShortLen)

\* Path.resolve(): "." segments go, ".." takes the segment before it
RECURSIVE Resolve(_, _)
Resolve(path, done) ==
    IF path = <<>> THEN done
    ELSE LET seg == Head(path)
         IN IF seg = Dot \/ seg = <<>> THEN Resolve(Tail(path), done)
            ELSE IF seg = DotDot
                 THEN Resolve(Tail(path),
                              IF done = <<>> THEN <<>> ELSE SubSeq(done, 1, Len(done) - 1))
                 ELSE Resolve(Tail(path), done \o <<seg>>)

Canonical(path) == Resolve(path, <<>>)

\* Path.is_relative_to: base is a prefix of path
IsRelativeTo(path, base) ==
    Len(path) >= Len(base) /\ SubSeq(path, 1, Len(base)) = base

\* workspace_service.py:15-22, the path after the validation of line 18;
\* the directory the operating system reaches through it is its resolution
GetWorkspacePath(repo_name, commit_hash) ==
    JoinPath(JoinPath(WorkspacesDir, repo_name), ShortHash(commit_hash))

\* no workspace directory on disk
NoDirs == [p \in {} |-> {}]

NoPath == <<>>

IdleWsCall == [pc |-> "idle", path |-> NoPath, next |-> 0, status |-> "none"]

Exists(path) == path \in DOMAIN wfs

\* mkdir(parents=True, exist_ok=True) of the directory, or the directories
\* tarfile makes for a member: an existing directory keeps what it holds
MadeDir(fs, path) ==
    [p \in DOMAIN fs \cup {path} |-> IF p \in DOMAIN fs THEN fs[p] ELSE {}]

WithMembers(fs, path, members) ==
    [p \in DOMAIN fs \cup {path} |->
        IF p = path THEN (IF p \in DOMAIN fs THEN fs[p] ELSE {}) \cup members ELSE fs[p]]

\* shutil.rmtree(path, ignore_errors=True)
RmTree(fs, path) == [p \in DOMAIN fs \ {path} |-> fs[p]]

\* the directories some checkout is making
InProgress == {wcalls[c].path : c \in {d \in WsCalls : wcalls[d].pc \notin {"idle", "done"}}}

\* calls take the lowest free slot
NextWsCall(c) == wcalls[c].pc = "idle" /\ \A d \in 1..(c - 1) : wcalls[d].pc # "idle"

Done(c, status) == [wcalls EXCEPT ![c].pc = "done", ![c].status = status]

\* workspace_service.py:32-45 up to the await of line 44: the hash check of
\* get_workspace_path (18-19) and the exists() test (41-42)
CreateWorkspace(c, repo_name, commit_hash) ==
    /\ NextWsCall(c)
    /\ IF ~IsAlnum(commit_hash)
       THEN /\ wcalls' = Done(c, "invalid_hash")
            /\ UNCHANGED wfs
       ELSE LET workspace_path == Canonical(GetWorkspacePath(repo_name, commit_hash))
            IN /\ Exists(workspace_path)
                  \/ Cardinality(DOMAIN wfs \cup InProgress \cup {workspace_path}) <= MaxWorkspaces
               /\ wcalls' = [wcalls EXCEPT ![c] =
                                [pc |-> IF Exists(workspace_path) THEN "done" ELSE "checkout",
                                 path |-> workspace_path, next |-> 0,
                                 status |-> IF Exists(workspace_path) THEN "ok" ELSE "none"]]
               /\ UNCHANGED wfs
    /\ UNCHANGED exceptWs

\* git_service.py:109-122: git worktree add --detach; `added` is whether git
\* made the worktree. It refuses a directory that holds files. On its
\* failure an existing directory is returned as the worktree.
WorktreeAdd(c, added) ==
    LET worktree == wcalls[c].path
    IN /\ wcalls[c].pc = "checkout"
       /\ added => (IF Exists(worktree) THEN wfs[worktree] = {} ELSE TRUE)
       /\ IF added
          THEN /\ wfs' = WithMembers(wfs, worktree, ArchiveMembers)
               /\ wcalls' = Done(c, "ok")
          ELSE /\ wcalls' = IF Exists(worktree) THEN Done(c, "ok")
                            ELSE [wcalls EXCEPT ![c].pc = "mkdir"]
               /\ UNCHANGED wfs
       /\ UNCHANGED exceptWs

\* the handler of line 155-161: rmtree of the directory if it exists, then
\* RuntimeError
FallbackFailed(c) ==
    /\ wfs' = RmTree(wfs, wcalls[c].path)
    /\ wcalls' = Done(c, "error")

\* git_service.py:126: worktree.mkdir(parents=True, exist_ok=True), which
\* has nothing to do, and so nothing to fail at, when the directory exists
Mkdir(c, ok) ==
    /\ wcalls[c].pc = "mkdir"
    /\ Exists(wcalls[c].path) => ok
    /\ IF ok
       THEN /\ wfs' = MadeDir(wfs, wcalls[c].path)
            /\ wcalls' = [wcalls EXCEPT ![c].pc = "archive"]
       ELSE FallbackFailed(c)
    /\ UNCHANGED exceptWs

\* git_service.py:128-136: git archive of the commit and tarfile.open
GitArchive(c, ok) ==
    /\ wcalls[c].pc = "archive"
    /\ IF ok
       THEN /\ wcalls' = [wcalls EXCEPT ![c].pc = "extract", ![c].next = 1]
            /\ UNCHANGED wfs
       ELSE FallbackFailed(c)
    /\ UNCHANGED exceptWs

\* git_service.py:150-153: tar.extractall writes the members one after
\* another, making the directories a member needs; the worktree is returned
\* after the last one
Extract(c, ok) ==
    /\ wcalls[c].pc = "extract"
    /\ IF ok
       THEN /\ wfs' = WithMembers(wfs, wcalls[c].path, {wcalls[c].next})
            /\ wcalls' = IF wcalls[c].next = NumMembers THEN Done(c, "ok")
                         ELSE [wcalls EXCEPT ![c].next = @ + 1]
       ELSE FallbackFailed(c)
    /\ UNCHANGED exceptWs

\* the handler of routers/replay.py:416-456 goes on with the answer
WsReturn(c) ==
    /\ wcalls[c].pc = "done"
    /\ wcalls' = [wcalls EXCEPT ![c] = IdleWsCall]
    /\ UNCHANGED wfs
    /\ UNCHANGED exceptWs

\* workspace_service.py:47-61: git worktree remove, rmtree when that fails.
\* The deletions drawn are those of a workspace no checkout is making.
DeleteWorkspace(repo_name, commit_hash) ==
    /\ IsAlnum(commit_hash)
    /\ LET workspace_path == Canonical(GetWorkspacePath(repo_name, commit_hash))
       IN /\ Exists(workspace_path)
          /\ workspace_path \notin InProgress
          /\ wfs' = RmTree(wfs, workspace_path)
    /\ UNCHANGED wcalls
    /\ UNCHANGED exceptWs

WsNext ==
    \/ \E c \in WsCalls, repo_name \in RepoNames, commit_hash \in CommitHashes :
           CreateWorkspace(c, repo_name, commit_hash)
    \/ \E c \in WsCalls, added \in BOOLEAN : WorktreeAdd(c, added)
    \/ \E c \in WsCalls, ok \in BOOLEAN : Mkdir(c, ok)
    \/ \E c \in WsCalls, ok \in BOOLEAN : GitArchive(c, ok)
    \/ \E c \in WsCalls, ok \in BOOLEAN : Extract(c, ok)
    \/ \E c \in WsCalls : WsReturn(c)
    \/ \E repo_name \in RepoNames, commit_hash \in CommitHashes :
           DeleteWorkspace(repo_name, commit_hash)

(***************************************************************************)
(*                         STATIC HTML ADAPTER                             *)
(*  adapters/static_html.py, utils/security.py                             *)
(***************************************************************************)

\* children spawned by the adapter and kept on record
MaxChildren == 2

\* a port below the range
WebPort == 80

\* ports handed to start: the ends of the accepted range, the ports next to
\* them, a port far below and one inside
AdapterPorts == {WebPort, MinPort - 1, MinPort, BasePort, MaxPort, MaxPort + 1}

\* workspace paths handed to start: two workspaces, the workspaces root,
\* a path that leaves the root through "..", the parent of the root and a
\* directory elsewhere
AdapterPaths ==
    {GetWorkspacePath(Site, <<"a">>),
     GetWorkspacePath(Site, LongHash),
     WorkspacesDir,
     GetWorkspacePath(DotDot, <<"a">>),
     SubSeq(WorkspacesDir, 1, Len(WorkspacesDir) - 1),
     << <<"e">> >>}

\* a check of the prefix on the path as given
IsSafePathUnresolved(base_path, target_path) ==
    IsRelativeTo(target_path, base_path)

\* utils/security.py:93-107
IsSafePath(base_path, target_path) ==
    IsRelativeTo(Canonical(target_path), Canonical(base_path))

NoStart == [workspace_path |-> NoPath, port |-> 0, outcome |-> "none"]

\* what subprocess.Popen and the poll half a second later can give
\* (static_html.py:56-80)
ChildOutcomes == {"running", "popen_failed", "exited"}

\* adapters/static_html.py:26-83. The caller passes an int for the port
\* (server_service.py), so the isinstance test of line 31 is not drawn.
AdapterStart(workspace_path, port, child) ==
    /\ IF ~(MinPort <= port /\ port <= MaxPort)
       THEN /\ ares' = [workspace_path |-> workspace_path, port |-> port,
                        outcome |-> "invalid_port"]
            /\ UNCHANGED aproc
       ELSE IF ~IsSafePath(WorkspacesDir, workspace_path)
       THEN /\ ares' = [workspace_path |-> workspace_path, port |-> port,
                        outcome |-> "invalid_workspace"]
            /\ UNCHANGED aproc
       ELSE /\ child # "popen_failed" =>
                   Cardinality(aproc \cup {[cwd |-> workspace_path, port |-> port]}) <= MaxChildren
            /\ ares' = [workspace_path |-> workspace_path, port |-> port, outcome |-> child]
            /\ aproc' = IF child = "popen_failed" THEN aproc
                        ELSE aproc \cup {[cwd |-> workspace_path, port |-> port]}
    /\ UNCHANGED exceptAdapter

\* adapters/static_html.py:86-95: the child is terminated, killed if it
\* does not exit in five seconds
AdapterStop(p) ==
    /\ p \in aproc
    /\ aproc' = aproc \ {p}
    /\ UNCHANGED ares
    /\ UNCHANGED exceptAdapter

AdapterNext ==
    \/ \E workspace_path \in AdapterPaths, port \in AdapterPorts, child \in ChildOutcomes :
           AdapterStart(workspace_path, port, child)
    \/ \E p \in aproc : AdapterStop(p)

(***************************************************************************)
(*                  WATCHLIST ENTRIES (routers/watchlist.py)               *)
(*  add_by_url, remove_repo, export_watchlist, import_watchlist and the    *)
(*  statements of overlapping check_updates runs                           *)
(***************************************************************************)

\* rows the table tracked_repos holds at most, and the largest rowid
MaxTracked == 3
\* items of an imported document
MaxDocLen == 2

EntryIds == 1..MaxTracked

\* parse_github_url gives (None, None) for a URL without two path parts;
\* an item of a document may lack its owner or its name
NoName == ""

\* the (owner, repo_name) pairs of the URLs and documents drawn
EntryPairs == {<<"o", "a">>, <<"o", "b">>, <<"p", "a">>, <<NoName, "a">>}

\* an item without the key current_version
NoKey == "absent"

\* the current_version values of the items drawn
ItemVersions == {NOT_CHECKED, "v1", NoKey}

NoEntry == [present |-> FALSE, owner |-> NoName, repo_name |-> NoName,
            current_version |-> "", last_checked |-> 0]

NoEntries == [id \in EntryIds |-> NoEntry]

Tracked(rows) == {id \in EntryIds : rows[id].present}

\* select(TrackedRepo).where(owner == owner, repo_name == name)
EntriesOf(rows, owner, name) ==
    {id \in Tracked(rows) : rows[id].owner = owner /\ rows[id].repo_name = name}

\* A plausible slip: the lookup compares the owner with the name given and
\* the name with the owner.
IsTrackedSwapped(rows, owner, name) == EntriesOf(rows, name, owner) # {}

\* routers/watchlist.py:96-102 and 349-355: result.scalar_one_or_none()
IsTracked(rows, owner, name) == EntriesOf(rows, owner, name) # {}

\* INTEGER PRIMARY KEY: the largest rowid + 1
NewEntryId(rows) ==
    IF Tracked(rows) = {} THEN 1
    ELSE (CHOOSE id \in Tracked(rows) : \A o \in Tracked(rows) : o <= id) + 1

\* the INSERT of db.add(TrackedRepo(...)); _owner_repo_uc
\* (models/watchlist.py:35-37) makes the INSERT of a tracked pair fail
ViolatesUnique(rows, owner, name) == EntriesOf(rows, owner, name) # {}

Inserted(rows, owner, name, current_version, t) ==
    [rows EXCEPT ![NewEntryId(rows)] =
        [present |-> TRUE, owner |-> owner, repo_name |-> name,
         current_version |-> current_version, last_checked |-> t]]

\* export_watchlist, lines 295-312: one item per row, in the order of the
\* select; json.dump and json.loads keep strings as they are
RECURSIVE ExportFrom(_, _)
ExportFrom(rows, id) ==
    IF id > MaxTracked THEN <<>>
    ELSE (IF rows[id].present
          THEN << [owner |-> rows[id].owner, name |-> rows[id].repo_name,
                   current_version |-> rows[id].current_version] >>
          ELSE <<>>) \o ExportFrom(rows, id + 1)

ExportWatchlist(rows) == ExportFrom(rows, 1)

\* A plausible slip: the item's version is dropped on import.
ItemVersionDropped(item) == NOT_CHECKED

\* routers/watchlist.py:364: item.get("current_version", NOT_CHECKED)
ItemVersion(item) ==
    IF item.current_version = NoKey THEN NOT_CHECKED ELSE item.current_version

\* import_watchlist, lines 341-367: the loop over the items. The select of
\* an item flushes the rows added for the items before it.
RECURSIVE Imported(_, _, _)
Imported(rows, doc, t) ==
    IF doc = <<>> THEN rows
    ELSE LET item == Head(doc)
         IN IF item.owner = NoName \/ item.name = NoName
               \/ IsTracked(rows, item.owner, item.name)
            THEN Imported(rows, Tail(doc), t)
            ELSE Imported(Inserted(rows, item.owner, item.name, ItemVersion(item), t),
                          Tail(doc), t)

Items == {[owner |-> p[1], name |-> p[2], current_version |-> v] :
             p \in EntryPairs, v \in ItemVersions}

\* the documents given to import_watchlist: made by hand, the items having
\* or lacking their keys
Documents == UNION {[1..n -> Items] : n \in 0..MaxDocLen}

Answer(op, owner, name, id, status) ==
    [op |-> op, owner |-> owner, name |-> name, id |-> id, status |-> status]

NoAnswer == Answer("none", NoName, NoName, 0, 0)

\* add_by_url, lines 82-129
AddEntry(owner, name, meta_found) ==
    /\ LET answer(status) == Answer("add", owner, name, 0, status)
       IN IF owner = NoName \/ name = NoName
          THEN /\ wlres' = answer(400)
               /\ UNCHANGED wl
          ELSE IF IsTracked(wl, owner, name)
          THEN /\ wlres' = answer(409)
               /\ UNCHANGED wl
          ELSE IF ~meta_found
          THEN /\ wlres' = answer(404)
               /\ UNCHANGED wl
          ELSE IF ViolatesUnique(wl, owner, name)
          THEN /\ wlres' = answer(500)
               /\ UNCHANGED wl
          ELSE /\ NewEntryId(wl) \in EntryIds
               /\ wlres' = answer(201)
               /\ wl' = Inserted(wl, owner, name, NOT_CHECKED, wlnow)
    /\ wlconn' = wl'
    /\ UNCHANGED <<wlrun, wlq, wlnow>>
    /\ UNCHANGED exceptEntries

\* remove_repo, lines 132-149
RemoveEntry(id) ==
    /\ IF id \in Tracked(wl)
       THEN /\ wl' = [wl EXCEPT ![id] = NoEntry]
            /\ wlres' = Answer("remove", NoName, NoName, id, 200)
       ELSE /\ wlres' = Answer("remove", NoName, NoName, id, 404)
            /\ UNCHANGED wl
    /\ wlconn' = wl'
    /\ UNCHANGED <<wlrun, wlq, wlnow>>
    /\ UNCHANGED exceptEntries

\* import_watchlist, lines 325-373, of a document that json.loads accepts
ImportEntries(doc) ==
    /\ Cardinality(Tracked(Imported(NoEntries, doc, wlnow))) + NewEntryId(wl) - 1 <= MaxTracked
    /\ wl' = Imported(wl, doc, wlnow)
    /\ wlres' = Answer("import", NoName, NoName, 0, 200)
    /\ wlconn' = wl'
    /\ UNCHANGED <<wlrun, wlq, wlnow>>
    /\ UNCHANGED exceptEntries

\* export_watchlist followed by import_watchlist of the file it gave, after
\* the watchlist was or was not emptied in between
ExportThenImport(emptied) ==
    /\ wl' = Imported(IF emptied THEN NoEntries ELSE wl, ExportWatchlist(wl), wlnow)
    /\ wlres' = Answer("reimport", NoName, NoName, 0, 200)
    /\ wlconn' = wl'
    /\ UNCHANGED <<wlrun, wlq, wlnow>>
    /\ UNCHANGED exceptEntries

\* check_updates, lines 152-206, run on its own: the repositories in `found`
\* are those a release was fetched for; one never checked takes the tag as
\* its current version (lines 201-202), and each is stamped (line 203)
CheckEntries(found) ==
    /\ found \subseteq Tracked(wl)
    /\ wl' = [id \in EntryIds |->
                IF id \in found
                THEN [wl[id] EXCEPT !.current_version =
                                        IF @ = NOT_CHECKED THEN "v1" ELSE @,
                                    !.last_checked = wlnow]
                ELSE wl[id]]
    /\ wlres' = Answer("check", NoName, NoName, 0, 200)
    /\ wlconn' = wl'
    /\ UNCHANGED <<wlrun, wlq, wlnow>>
    /\ UNCHANGED exceptEntries

EntriesNext ==
    \/ \E p \in EntryPairs, meta_found \in BOOLEAN : AddEntry(p[1], p[2], meta_found)
    \/ \E id \in EntryIds \cup {MaxTracked + 1} : RemoveEntry(id)
    \/ \E doc \in Documents : ImportEntries(doc)
    \/ \E emptied \in BOOLEAN : ExportThenImport(emptied)
    \/ \E found \in SUBSET EntryIds : CheckEntries(found)

\* check_updates runs in flight at once
NumStampRuns == 2
\* the last instant of the clock of the stamps
MaxStamp == 2

StampRuns == 1..NumStampRuns

\* the table of a watchlist that tracks MaxTracked repositories
FullWatchlist ==
    [id \in EntryIds |->
        [present |-> TRUE, owner |-> "o", repo_name |-> <<"a", "b", "c", "d">>[id],
         current_version |-> NOT_CHECKED, last_checked |-> 0]]

IdleStampRun == [pc |-> "idle", ids |-> {}, todo |-> {}, stamp |-> 0]

\* the statements sent over the one connection of the pool (database.py:
\* StaticPool) and not yet executed, in the order they were sent, and the
\* runs whose statement has been executed, in the order they are resumed
NoStatements == [pending |-> <<>>, woken |-> <<>>]

Lowest(ids) == CHOOSE id \in ids : \A o \in ids : id <= o

\* the statement a committing run sends next: the UPDATE of the row of the
\* lowest id it still has to write, or the COMMIT. The rows of a run change
\* different columns (lines 198-203), so each has its own UPDATE.
NextStatement(r, todo, stamp) ==
    IF todo = {} THEN [run |-> r, kind |-> "commit", id |-> 0, stamp |-> 0]
    ELSE [run |-> r, kind |-> "update", id |-> Lowest(todo), stamp |-> stamp]

\* check_updates, lines 160-162: select(TrackedRepo)
RunSelect(r) ==
    /\ wlrun[r].pc = "idle"
    /\ wlrun' = [wlrun EXCEPT ![r] = [IdleStampRun EXCEPT !.pc = "gather",
                                                         !.ids = Tracked(wlconn)]]
    /\ UNCHANGED <<wl, wlres, wlconn, wlq, wlnow>>
    /\ UNCHANGED exceptEntries

\* check_updates, lines 190-205: the gather returns, `found` being the
\* repositories a release was fetched for; the loop stamps them with now and
\* db.commit() sends its first statement
RunStamp(r, found) ==
    /\ wlrun[r].pc = "gather"
    /\ found \subseteq wlrun[r].ids
    /\ LET statement == NextStatement(r, found, wlnow)
       IN /\ wlq' = [wlq EXCEPT !.pending = Append(@, statement)]
          /\ wlrun' = [wlrun EXCEPT ![r].pc = IF statement.kind = "commit" THEN "commit" ELSE "flush",
                                    ![r].todo = found \ {statement.id},
                                    ![r].stamp = wlnow]
    /\ UNCHANGED <<wl, wlres, wlconn, wlnow>>
    /\ UNCHANGED exceptEntries

\* the thread of the connection executes the statement at the head of its
\* queue and wakes the run that sent it
Execute ==
    /\ wlq.pending # <<>>
    /\ LET statement == Head(wlq.pending)
       IN /\ wlq' = [pending |-> Tail(wlq.pending), woken |-> Append(wlq.woken, statement.run)]
          /\ IF statement.kind = "commit"
             THEN /\ wl' = wlconn
                  /\ UNCHANGED wlconn
             ELSE /\ wlconn' = [wlconn EXCEPT ![statement.id].last_checked = statement.stamp]
                  /\ UNCHANGED wl
    /\ UNCHANGED <<wlres, wlrun, wlnow>>
    /\ UNCHANGED exceptEntries

\* the run woken first goes on: it sends its next statement, or returns once
\* its COMMIT is done (line 206)
RunResume(r) ==
    /\ wlq.woken # <<>>
    /\ Head(wlq.woken) = r
    /\ IF wlrun[r].pc = "commit"
       THEN /\ wlrun' = [wlrun EXCEPT ![r] = IdleStampRun]
            /\ wlq' = [wlq EXCEPT !.woken = Tail(@)]
       ELSE LET statement == NextStatement(r, wlrun[r].todo, wlrun[r].stamp)
            IN /\ wlq' = [pending |-> Append(wlq.pending, statement), woken |-> Tail(wlq.woken)]
               /\ wlrun' = [wlrun EXCEPT ![r].pc = IF statement.kind = "commit" THEN "commit" ELSE "flush",
                                         ![r].todo = @ \ {statement.id}]
    /\ UNCHANGED <<wl, wlres, wlconn, wlnow>>
    /\ UNCHANGED exceptEntries

\* datetime.now(timezone.utc) moves on
StampTick ==
    /\ wlnow < MaxStamp
    /\ wlnow' = wlnow + 1
    /\ UNCHANGED <<wl, wlres, wlconn, wlrun, wlq>>
    /\ UNCHANGED exceptEntries

StampNext ==
    \/ \E r \in StampRuns : RunSelect(r)
    \/ \E r \in StampRuns, found \in SUBSET EntryIds : RunStamp(r, found)
    \/ Execute
    \/ \E r \in StampRuns : RunResume(r)
    \/ StampTick

(***************************************************************************)
(*                           RELEASE CACHE                                 *)
(* services/release_cache_service.py, models/release.py                    *)
(***************************************************************************)

\* release_cache_service.py:17
RELEASE_CACHE_TTL_MINUTES == 60
\* minutes between two instants of the clock of the cache
TickMinutes == 30
\* the last instant of the clock of the cache, in ticks
MaxCacheTicks == 3
\* releases given to one call of cache_releases
MaxReleases == 2
\* repositories whose releases are cached
NumCacheRepos == 2

CacheRepos == 1..NumCacheRepos

\* a url GitHub left out (None)
NoUrl == "None"

\* the published_at text of a release: "<instant>Z", or a text that
\* datetime.fromisoformat rejects
PublishedText(instant) == [parses |-> TRUE, z |-> instant]
Unparsable == [parses |-> FALSE, z |-> 0]

\* the releases GitHub answers with
GithubReleases ==
    { [tag_name |-> "a", published_at |-> PublishedText(0),
       assets |-> << [name |-> "x", browser_download_url |-> "ux"] >>,
       zipball_url |-> "za", tarball_url |-> "ta"],
      [tag_name |-> "b", published_at |-> PublishedText(TickMinutes),
       assets |-> <<>>, zipball_url |-> "zb", tarball_url |-> NoUrl],
      [tag_name |-> "c", published_at |-> Unparsable,
       assets |-> << [name |-> "y", browser_download_url |-> "uy"] >>,
       zipball_url |-> NoUrl, tarball_url |-> "tc"],
      [tag_name |-> "d", published_at |-> PublishedText(TickMinutes),
       assets |-> <<>>, zipball_url |-> NoUrl, tarball_url |-> NoUrl] }

ReleaseLists == UNION {[1..n -> GithubReleases] : n \in 0..MaxReleases}

\* lines 149-153: datetime.fromisoformat(text.replace("Z", "+00:00")), or now
PublishedAt(text, t) == IF text.parses THEN text.z ELSE t

\* datetime.isoformat() of a stored instant (line 61): the text without "Z"
Isoformat(instant) == [iso |-> instant]

\* lines 173-188: the source archives as pseudo-assets, zip first
SourceAssets(release) ==
    (IF release.zipball_url # NoUrl
     THEN << [name |-> "Source Code (zip)", download_url |-> release.zipball_url] >>
     ELSE <<>>)
    \o (IF release.tarball_url # NoUrl
        THEN << [name |-> "Source Code (tar.gz)", download_url |-> release.tarball_url] >>
        ELSE <<>>)

\* lines 156-188
StoredAssets(release) ==
    [k \in 1..Len(release.assets) |->
        [name |-> release.assets[k].name,
         download_url |-> release.assets[k].browser_download_url]]
    \o SourceAssets(release)

\* lines 190-199
CachedRelease(repo_id, release, t) ==
    [repo_id |-> repo_id, tag_name |-> release.tag_name,
     published_at |-> PublishedAt(release.published_at, t),
     assets |-> StoredAssets(release), cached_at |-> t]

\* select(CachedRelease).where(repo_id == repo_id), in rowid order
GroupOf(table, repo_id) == SelectSeq(table, LAMBDA r : r.repo_id = repo_id)

\* delete(CachedRelease).where(repo_id == repo_id)
WithoutGroup(table, repo_id) == SelectSeq(table, LAMBDA r : r.repo_id # repo_id)

OneToOne(n) == {f \in [1..n -> 1..n] : \A i, j \in 1..n : f[i] = f[j] => i = j}

\* order_by(published_at.desc()), lines 34-36: the rows of equal
\* published_at come in any order
Orderings(group) ==
    {ordered \in {[i \in 1..Len(group) |-> group[f[i]]] : f \in OneToOne(Len(group))} :
        \A i \in 1..(Len(ordered) - 1) :
            ordered[i].published_at >= ordered[i + 1].published_at}

\* A plausible slip: a group as old as the TTL counts as expired.
ReleasesExpiredAtTtl(cached_at, t) == t - cached_at >= RELEASE_CACHE_TTL_MINUTES

\* release_cache_service.py:51
ReleasesExpired(cached_at, t) == t - cached_at > RELEASE_CACHE_TTL_MINUTES

\* lines 56-66
Formatted(r) ==
    [tag_name |-> r.tag_name, published_at |-> Isoformat(r.published_at),
     assets |-> r.assets]

NoReleasesAnswer == [op |-> "none", repo_id |-> 0, found |-> FALSE, releases |-> <<>>]

NoPut == [put |-> FALSE, releases |-> <<>>, at |-> 0]

\* get_cached_releases, lines 23-66
GetCachedReleases(repo_id) ==
    /\ rcres.op = "none"
    /\ \E releases \in Orderings(GroupOf(rctable, repo_id)) :
          rcres' = IF releases = <<>> \/ ReleasesExpired(releases[1].cached_at, rcnow)
                   THEN [op |-> "get", repo_id |-> repo_id, found |-> FALSE, releases |-> <<>>]
                   ELSE [op |-> "get", repo_id |-> repo_id, found |-> TRUE,
                         releases |-> [i \in 1..Len(releases) |-> Formatted(releases[i])]]
    /\ UNCHANGED <<rctable, rcnow, rcput>>
    /\ UNCHANGED exceptReleases

\* the caller of get_cached_releases goes on
ReleasesReturn ==
    /\ rcres.op # "none"
    /\ rcres' = NoReleasesAnswer
    /\ UNCHANGED <<rctable, rcnow, rcput>>
    /\ UNCHANGED exceptReleases

\* cache_releases, lines 129-203
CacheReleases(repo_id, releases) ==
    /\ rcres.op = "none"
    /\ rctable' = WithoutGroup(rctable, repo_id)
                  \o [i \in 1..Len(releases) |-> CachedRelease(repo_id, releases[i], rcnow)]
    /\ rcput' = [rcput EXCEPT ![repo_id] = [put |-> TRUE, releases |-> releases, at |-> rcnow]]
    /\ UNCHANGED <<rcres, rcnow>>
    /\ UNCHANGED exceptReleases

\* invalidate_cache, lines 205-211
InvalidateCache(repo_id) ==
    /\ rcres.op = "none"
    /\ rctable' = WithoutGroup(rctable, repo_id)
    /\ rcput' = [rcput EXCEPT ![repo_id] = NoPut]
    /\ UNCHANGED <<rcres, rcnow>>
    /\ UNCHANGED exceptReleases

\* datetime.now(timezone.utc) moves on
ReleasesTick ==
    /\ rcres.op = "none"
    /\ rcnow < MaxCacheTicks * TickMinutes
    /\ rcnow' = rcnow + TickMinutes
    /\ UNCHANGED <<rctable, rcres, rcput>>
    /\ UNCHANGED exceptReleases

ReleasesNext ==
    \/ \E repo_id \in CacheRepos : GetCachedReleases(repo_id)
    \/ ReleasesReturn
    \/ \E repo_id \in CacheRepos, releases \in ReleaseLists : CacheReleases(repo_id, releases)
    \/ \E repo_id \in CacheRepos : InvalidateCache(repo_id)
    \/ ReleasesTick

(***************************************************************************)
(*                      COMMIT ROWS OF A REPOSITORY                        *)
(* routers/replay.py (add_local_repo, sync_repo_commits, resync_commits),  *)
(* services/git_service.py (get_commits), models/replay.py                 *)
(***************************************************************************)

\* git_service.py:50: get_commits(repo_path, limit: int = 100, ...)
DefaultLimit == 100
\* routers/replay.py:281
CHUNK_SIZE == 500
\* repositories on disk
NumGitRepos == 2
\* commits of the short histories
MaxCommits == 2
\* the committer dates of the short histories
MaxDate == 2

GitRepos == 1..NumGitRepos

\* A history is the commits of the checked-out branch, each the child of the
\* one before it, given by their committer dates; the hash of a commit is
\* its place in the history.
ShortHistories == UNION {[1..n -> 1..MaxDate] : n \in 0..MaxCommits}

\* a history one commit longer than the default limit of get_commits
LongHistory == [i \in 1..(DefaultLimit + 1) |-> i]

Histories == ShortHistories \cup {LongHistory}

\* datetime.fromisoformat of the text datetime.isoformat gave
FromIsoformat(text) == text.iso

\* git_service.py:49-87: repo.iter_commits(max_count=limit), the newest
\* commit first, the parents after their child
GetCommits(history, limit) ==
    LET n == IF Len(history) < limit THEN Len(history) ELSE limit
    IN [k \in 1..n |->
           [hash |-> Len(history) - k + 1, date |-> Isoformat(history[Len(history) - k + 1])]]

\* list.reverse()
Reversed(seq) == [k \in 1..Len(seq) |-> seq[Len(seq) - k + 1]]

\* sync_repo_commits, lines 272-301: the rows added for the commits of the
\* repository, chunk by chunk
SyncRepoCommits(history) ==
    LET git_commits == Reversed(GetCommits(history, DefaultLimit))
    IN [k \in 1..Len(git_commits) |->
           LET chunk_start == ((k - 1) \div CHUNK_SIZE) * CHUNK_SIZE
               i == (k - 1) % CHUNK_SIZE
           IN [hash |-> git_commits[k].hash,
               date |-> FromIsoformat(git_commits[k].date),
               commit_number |-> chunk_start + i + 1]]

NotLoaded == [loaded |-> FALSE, commits |-> <<>>]

\* add_local_repo, lines 98-137, of a path that holds a git repository; on a
\* repository without commits iter_commits raises once the Repository row
\* is committed
AddLocalRepo(path) ==
    /\ ~grows[path].loaded
    /\ grows' = [grows EXCEPT ![path] = [loaded |-> TRUE, commits |-> SyncRepoCommits(ghist[path])]]
    /\ UNCHANGED ghist
    /\ UNCHANGED exceptCommits

\* resync_commits, lines 304-332: 404 for an unknown repository; else the
\* rows are deleted and synced again, and a failing get_commits leaves the
\* commit undone
ResyncCommits(repo_id) ==
    /\ grows' = IF grows[repo_id].loaded /\ ghist[repo_id] # <<>>
                THEN [grows EXCEPT ![repo_id].commits = SyncRepoCommits(ghist[repo_id])]
                ELSE grows
    /\ UNCHANGED ghist
    /\ UNCHANGED exceptCommits

\* git commit or git pull in the working copy: the history gets new commits
\* after those it has, the clocks of their committers being right or wrong
GitPull(path, history) ==
    /\ Len(history) > Len(ghist[path])
    /\ \A i \in 1..Len(ghist[path]) : history[i] = ghist[path][i]
    /\ ghist' = [ghist EXCEPT ![path] = history]
    /\ UNCHANGED grows
    /\ UNCHANGED exceptCommits

CommitsNext ==
    \/ \E path \in GitRepos : AddLocalRepo(path)
    \/ \E repo_id \in GitRepos : ResyncCommits(repo_id)
    \/ \E path \in GitRepos, history \in Histories : GitPull(path, history)

(***************************************************************************)
(*                            COMMIT COUNT                                 *)
(* services/github_service.py (fetch_commit_count)                         *)
(***************************************************************************)

\* links of a Link header
MaxLinks == 2
\* commits in the body of an answer
MaxBody == 2

\* the outcome of _request: no response (it raised), or a status
RequestRaised == 0
CountStatuses == {RequestRaised, 200, 404, 409}

\* a parameter of the query of a link: "name=value", value being digits or not
Param(name, digits, value) == [name |-> name, digits |-> digits, value |-> value]

\* the urls GitHub and others put in a Link header, per_page=1 being the
\* parameter fetch_commit_count sends (line 342)
Queries ==
    { << Param("per_page", TRUE, 1), Param("page", TRUE, 42) >>,
      << Param("per_page", TRUE, 1), Param("page", TRUE, 2) >>,
      << Param("per_page", TRUE, 1) >>,
      << Param("per_page", TRUE, 1), Param("page", FALSE, 0) >> }

Links == [rel : {"next", "last"}, query : Queries]

\* the Link header split at its commas; <<>> is no header
LinkHeaders == UNION {[1..n -> Links] : n \in 0..MaxLinks}

\* the body: a JSON list, another JSON value, or not JSON
Bodies ==
    {[kind |-> "list", len |-> n] : n \in 0..MaxBody}
    \cup {[kind |-> "object", len |-> 0], [kind |-> "invalid", len |-> 0]}

CountResponses == [status : CountStatuses, link : LinkHeaders, body : Bodies]

\* A plausible slip: page= is searched without the [?&] before it, so the
\* end of per_page= matches too.
IsPageParamLoose(param) == param.name \in {"page", "per_page"} /\ param.digits

\* line 356: re.search(r'[?&]page=(\d+)', link) matches this parameter
IsPageParam(param) == param.name = "page" /\ param.digits

\* line 356: the parameters of a link the pattern matches, by place
PageParams(link) == {k \in 1..Len(link.query) : IsPageParam(link.query[k])}

\* lines 353-358: the links that end the loop: rel="last" with a page
LastLinks(header) ==
    {i \in 1..Len(header) : header[i].rel = "last" /\ PageParams(header[i]) # {}}

First(places) == CHOOSE p \in places : \A o \in places : p <= o

Returned(count) == [raised |-> FALSE, count |-> count]
Raised == [raised |-> TRUE, count |-> 0]

\* lines 344-368: the body of the try
CountOrRaise(response) ==
    IF response.status = RequestRaised THEN Raised
    ELSE IF response.status = 200
    THEN IF LastLinks(response.link) # {}
         THEN LET link == response.link[First(LastLinks(response.link))]
              IN Returned(link.query[First(PageParams(link))].value)
         ELSE IF response.body.kind = "invalid" THEN Raised
         ELSE IF response.body.kind = "list" THEN Returned(response.body.len)
         ELSE Returned(0)
    ELSE Returned(0)

\* fetch_commit_count, lines 337-371: except Exception: return 0
FetchCommitCountOf(response) ==
    IF CountOrRaise(response).raised THEN Returned(0) ELSE CountOrRaise(response)

NoCount == [called |-> FALSE, response |-> [status |-> RequestRaised, link |-> <<>>,
                                            body |-> [kind |-> "invalid", len |-> 0]],
            raised |-> FALSE, count |-> 0]

\* a call of fetch_commit_count that GitHub answers with `response`
FetchCommitCount(response) ==
    /\ ~ccres.called
    /\ ccres' = [called |-> TRUE, response |-> response,
                 raised |-> FetchCommitCountOf(response).raised,
                 count |-> FetchCommitCountOf(response).count]
    /\ UNCHANGED exceptCount

\* the caller of fetch_commit_count goes on
CountReturn ==
    /\ ccres.called
    /\ ccres' = NoCount
    /\ UNCHANGED exceptCount

CountNext ==
    \/ \E response \in CountResponses : FetchCommitCount(response)
    \/ CountReturn

(***************************************************************************)
(*                         API STATUS ENDPOINT                             *)
(* routers/discovery.py (get_api_status), services/cache_service.py        *)
(* (get_api_status), services/github_service.py (fetch_rate_limit)         *)
(***************************************************************************)

\* the last instant of the clock of the endpoint, in the unit of
\* x-ratelimit-reset
MaxStatusClock == 3

\* cache_service.py:168: the answer when api_status holds no row
DefaultStatus == [limit |-> 5000, remaining |-> 5000, reset_time |-> 0, token_source |-> "none"]

\* CacheService.get_api_status, lines 162-177: select(ApiStatus).limit(1)
ApiStatusOf(table) == IF table = <<>> THEN DefaultStatus ELSE table[1]

\* routers/discovery.py:295-296; `not status` is false of both answers of
\* get_api_status, which are dicts with keys
IsStale(status, t) == status.reset_time > 0 /\ status.reset_time < t

\* _update_rate_limit, lines 26-66, on the table of one row at most
RateLimitUpdated(table, headers, token_source) ==
    IF headers.kind # "ok" THEN table
    ELSE IF table = <<>> THEN << ObservedRow(headers, token_source) >>
    ELSE IF ShouldSkip(headers.limit, NewSource(token_source, headers.limit), table[1])
    THEN table
    ELSE << ObservedRow(headers, token_source) >>

NoStatusRead == [called |-> FALSE, requests |-> 0, token |-> NoToken, status |-> DefaultStatus]

\* get_api_status of routers/discovery.py, lines 289-307: GitHub answers the
\* refetch, if one is made, with `headers`. The handler does not commit, so
\* the row _update_rate_limit flushed is rolled back when get_db closes the
\* session.
ReadApiStatus(headers) ==
    /\ ~stres.called
    /\ LET status == ApiStatusOf(strow)
           token == GetEffectiveToken(NoToken, tcfg.env, tcfg.stored, tcfg.key).token
       IN stres' = IF IsStale(status, stnow)
                   THEN [called |-> TRUE, requests |-> 1, token |-> token,
                         status |-> ApiStatusOf(RateLimitUpdated(strow, headers,
                                        RequestTokenSource(token # NoToken)))]
                   ELSE [called |-> TRUE, requests |-> 0, token |-> NoToken, status |-> status]
    /\ UNCHANGED <<strow, stnow>>
    /\ UNCHANGED exceptStatus

\* the browser has the answer
StatusReturn ==
    /\ stres.called
    /\ stres' = NoStatusRead
    /\ UNCHANGED <<strow, stnow>>
    /\ UNCHANGED exceptStatus

\* another handler makes a request to GitHub and commits
OtherRequest(headers, auth) ==
    /\ ~stres.called
    /\ strow' = RateLimitUpdated(strow, headers, RequestTokenSource(auth))
    /\ UNCHANGED <<stres, stnow>>
    /\ UNCHANGED exceptStatus

\* time.time() moves on
StatusTick ==
    /\ ~stres.called
    /\ stnow < MaxStatusClock
    /\ stnow' = stnow + 1
    /\ UNCHANGED <<strow, stres>>
    /\ UNCHANGED exceptStatus

\* a token is saved in the settings, or the backend is started with a token
\* in its environment
StatusTokens ==
    /\ ~stres.called
    /\ \/ SaveToken(<<"a">>)
       \/ \E env_token \in {NoToken, <<"a", "a">>} : Restart(tcfg.key, env_token)

StatusNext ==
    \/ \E headers \in HeaderSet : ReadApiStatus(headers)
    \/ StatusReturn
    \/ \E headers \in HeaderSet, auth \in BOOLEAN : OtherRequest(headers, auth)
    \/ StatusTick
    \/ StatusTokens

(***************************************************************************)
(*                             LOG WORKER                                  *)
(* utils/logger.py (DBQueueHandler, log_worker), main.py (lifespan)        *)
(***************************************************************************)

\* utils/logger.py:66: the most entries of one batch
MaxBatchSize == 100
\* log records emitted in a run of the backend
MaxLogEntries == 3

LogEntries == 1..MaxLogEntries

\* the first n elements of a sequence, or all of them
Take(seq, n) == SubSeq(seq, 1, IF Len(seq) < n THEN Len(seq) ELSE n)

Drop(seq, n) == SubSeq(seq, (IF Len(seq) < n THEN Len(seq) ELSE n) + 1, Len(seq))

\* the task main.py:42 creates has not run yet
NewWorker == [pc |-> "created", batch |-> <<>>]

NotCancelled == [requested |-> FALSE, before |-> {}]

\* DBQueueHandler.emit, lines 40-50: a log record is put on the queue
Emit ==
    /\ logn < MaxLogEntries
    /\ logn' = logn + 1
    /\ logq' = Append(logq, logn + 1)
    /\ UNCHANGED <<logs, logw, logc>>
    /\ UNCHANGED exceptLogs

\* log_worker, lines 58-71: the task runs for the first time or after its
\* sleep, collects a batch and goes to write it, or to sleep again
CollectBatch ==
    /\ logw.pc \in {"created", "sleep", "backoff"}
    /\ ~logc.requested
    /\ LET batch == Take(logq, MaxBatchSize)
       IN /\ logq' = Drop(logq, MaxBatchSize)
          /\ logw' = IF batch # <<>> THEN [pc |-> "writing", batch |-> batch]
                     ELSE [pc |-> "sleep", batch |-> <<>>]
    /\ UNCHANGED <<logs, logn, logc>>
    /\ UNCHANGED exceptLogs

\* log_worker, lines 72-84: the transaction of the batch commits and the
\* worker sleeps, or it fails and the worker prints and backs off (88-91)
WriteBatch(ok) ==
    /\ logw.pc = "writing"
    /\ ~logc.requested
    /\ logs' = IF ok THEN logs \cup {logw.batch[i] : i \in 1..Len(logw.batch)} ELSE logs
    /\ logw' = [pc |-> IF ok THEN "sleep" ELSE "backoff", batch |-> <<>>]
    /\ UNCHANGED <<logq, logn, logc>>
    /\ UNCHANGED exceptLogs

\* lifespan, main.py:46: log_task.cancel(), after the application served
\* (the task has run by then); `before` keeps the records put on the queue
\* so far
CancelWorker ==
    /\ ~logc.requested
    /\ logw.pc \notin {"created", "exited"}
    /\ logc' = [requested |-> TRUE, before |-> 1..logn]
    /\ UNCHANGED <<logq, logs, logw, logn>>
    /\ UNCHANGED exceptLogs

\* the task gets CancelledError where it waits: in the transaction of its
\* batch (which rolls back) or in a sleep; line 87 leaves the loop
WorkerCancelled ==
    /\ logc.requested
    /\ logw.pc # "exited"
    /\ logw' = [pc |-> "exited", batch |-> <<>>]
    /\ UNCHANGED <<logq, logs, logn, logc>>
    /\ UNCHANGED exceptLogs

LogsNext ==
    \/ Emit
    \/ CollectBatch
    \/ \E ok \in BOOLEAN : WriteBatch(ok)
    \/ CancelWorker
    \/ WorkerCancelled

(***************************************************************************)
(*       RETRY LOOP OF start_server (server_service.py, lines 143-205)     *)
(***************************************************************************)

\* asyncio.sleep(0.1 * (2 ** attempt)): the factor, in milliseconds
BaseDelayMs == 100

\* What one pass of the loop can meet:
\*   no_port      _get_next_available_port raises RuntimeError
\*   os_error     adapter.start raises an OSError
\*   exited       the child has exited after the sleep of adapter.start (a
\*                port it cannot bind included): RuntimeError
\*   value_error  adapter.start refuses the port or the workspace
\*   started      the child is alive after the sleep
Outcomes == {"no_port", "os_error", "exited", "value_error", "started"}

NoRetry == [pc |-> "idle", preferred |-> NoPort, attempt |-> 0,
            passes |-> <<>>, delays |-> <<>>, status |-> ""]

\* line 182: the sleep asked for after the pass `attempt` (0, 1, 2)
BackoffMs(attempt) == BaseDelayMs * (2 ^ attempt)

\* A plausible slip: a sleep follows every pass, the last one included.
SleepsAfterEvery(attempt) == attempt < max_retries

\* line 181: no sleep after the last pass
SleepsAfter(attempt) == attempt < max_retries - 1

\* `continue`: the next pass, or lines 193-205 once range(max_retries) is
\* used up
Continue(r) ==
    IF r.attempt + 1 = max_retries
    THEN [r EXCEPT !.pc = "returned", !.status = "failed"]
    ELSE [r EXCEPT !.pc = "loop", !.attempt = @ + 1]

\* start_server for a commit without instance whose workspace an adapter
\* validates reaches the loop
RetryCall(preferred) ==
    /\ rtry.pc = "idle"
    /\ rtry' = [NoRetry EXCEPT !.pc = "loop", !.preferred = preferred]
    /\ UNCHANGED exceptRetry

\* One pass of the loop, lines 147-190, up to its sleep or its end.
Pass(outcome) ==
    /\ rtry.pc = "loop"
    /\ LET asked == IF rtry.attempt = 0 THEN rtry.preferred ELSE NoPort
           r == [rtry EXCEPT !.passes = Append(@, [preferred |-> asked,
                                                    outcome |-> outcome])]
       IN  rtry' =
             CASE outcome = "no_port" -> Continue(r)
               [] outcome = "os_error" ->
                    IF SleepsAfter(r.attempt)
                    THEN [r EXCEPT !.pc = "sleep",
                                   !.delays = Append(@, BackoffMs(r.attempt))]
                    ELSE Continue(r)
               [] outcome = "started" ->
                    [r EXCEPT !.pc = "returned", !.status = "running"]
               [] OTHER -> [r EXCEPT !.pc = "returned", !.status = "failed"]
    /\ UNCHANGED exceptRetry

\* the sleep of line 182 is over: `continue`
BackoffOver ==
    /\ rtry.pc = "sleep"
    /\ rtry' = Continue(rtry)
    /\ UNCHANGED exceptRetry

\* start_server returns its instance
RetryReturn ==
    /\ rtry.pc = "returned"
    /\ rtry' = NoRetry
    /\ UNCHANGED exceptRetry

RetryNext ==
    \/ \E preferred \in PreferredPorts : RetryCall(preferred)
    \/ \E outcome \in Outcomes : Pass(outcome)
    \/ BackoffOver
    \/ RetryReturn

(***************************************************************************)
(*        ASSET DOWNLOAD (routers/settings.py, utils/security.py)          *)
(***************************************************************************)

\* A piece of text is its lower-case spelling and whether it is written with
\* upper-case letters; the empty text stands for a missing part.
Text(name, upper) == [name |-> name, upper |-> upper]
Missing == Text("", FALSE)

\* A plausible slip: the text is compared as it is written.
LowerAsWritten(text) == text

\* str.lower(), which urlparse applies to the scheme and to .hostname
Lower(text) == [text EXCEPT !.upper = FALSE]

\* utils/security.py:113-120
ALLOWED_DOWNLOAD_HOSTS ==
    {Text(name, FALSE) : name \in {"github.com", "api.github.com",
                                   "raw.githubusercontent.com",
                                   "objects.githubusercontent.com",
                                   "github-releases.githubusercontent.com",
                                   "codeload.github.com"}}

SchemeNames == {"https", "http", "ftp"}
HostNames == {"github.com", "codeload.github.com", "evil.com", "localhost"}

\* The URLs of a request: scheme and host as written, `malformed` for text
\* urlparse raises on.
Urls ==
    {[malformed |-> FALSE, scheme |-> s, host |-> h] :
        s \in {Text(n, u) : n \in SchemeNames, u \in BOOLEAN} \cup {Missing},
        h \in {Text(n, u) : n \in HostNames, u \in BOOLEAN} \cup {Missing}}
    \cup {[malformed |-> TRUE, scheme |-> Missing, host |-> Missing]}

\* What socket.gethostbyname answers: gaierror, text that is no IP address,
\* or an address, given by the three properties ipaddress tells of it.
Address(private, loopback, reserved) ==
    [kind |-> "address", is_private |-> private, is_loopback |-> loopback,
     is_reserved |-> reserved]
Resolutions ==
    {[kind |-> k, is_private |-> FALSE, is_loopback |-> FALSE, is_reserved |-> FALSE] :
        k \in {"gaierror", "no_address"}}
    \cup {Address(FALSE, FALSE, FALSE), Address(TRUE, FALSE, FALSE),
          Address(TRUE, TRUE, FALSE), Address(FALSE, FALSE, TRUE)}

\* urlparse(url): scheme and hostname in lower case
Urlparse(url) == [scheme |-> Lower(url.scheme), hostname |-> Lower(url.host)]

\* A plausible slip: reserved addresses are let through.
IsInternalNoReserved(resolved) ==
    /\ resolved.kind = "address"
    /\ resolved.is_private \/ resolved.is_loopback

\* utils/security.py:165-171: the ValueError raised for the resolved address
IsInternal(resolved) ==
    /\ resolved.kind = "address"
    /\ resolved.is_private \/ resolved.is_loopback \/ resolved.is_reserved

\* validate_download_url: TRUE when it returns True, FALSE when it raises
ValidateDownloadUrl(url, resolved) ==
    IF url.malformed THEN FALSE
    ELSE LET parsed == Urlparse(url)
         IN  /\ parsed.scheme = Text("https", FALSE)
             /\ parsed.hostname # Missing
             /\ Lower(parsed.hostname) \in ALLOWED_DOWNLOAD_HOSTS
             /\ ~IsInternal(resolved)

NoDownload == [called |-> FALSE, url |-> [malformed |-> TRUE, scheme |-> Missing,
                                          host |-> Missing],
               resolved |-> Address(FALSE, FALSE, FALSE),
               valid |-> FALSE, status |-> 0, requests |-> 0, written |-> 0]

\* what github_service.download_asset meets
DownloadOutcomes == {"ok", "http_error", "request_error", "io_error"}

\* POST /download-asset (settings.py:214-273) with github_service.
\* download_asset (github_service.py:418-449).  `safe`: the sanitized target
\* is inside the download path; `made`: the target directory could be made.
\* The rate-limit row the download touches is never committed by this route.
DownloadAsset(url, resolved, safe, made, outcome) ==
    /\ ~dl.called
    /\ LET asked == [NoDownload EXCEPT !.called = TRUE, !.url = url,
                                       !.resolved = resolved,
                                       !.valid = ValidateDownloadUrl(url, resolved)]
       IN  dl' =
             IF ~asked.valid
             THEN [asked EXCEPT !.status = 400]
             ELSE IF ~safe THEN [asked EXCEPT !.status = 400]
             ELSE IF ~made THEN [asked EXCEPT !.status = 500]
             ELSE IF outcome = "ok"
             THEN [asked EXCEPT !.status = 200, !.requests = 1, !.written = 1]
             ELSE [asked EXCEPT !.status = 500, !.requests = 1,
                                !.written = IF outcome = "io_error" THEN 1 ELSE 0]
    /\ UNCHANGED exceptDownload

\* the answer is sent
DownloadReturn ==
    /\ dl.called
    /\ dl' = NoDownload
    /\ UNCHANGED exceptDownload

DownloadNext ==
    \/ \E url \in Urls, resolved \in Resolutions, safe, made \in BOOLEAN,
          outcome \in DownloadOutcomes :
          DownloadAsset(url, resolved, safe, made, outcome)
    \/ DownloadReturn

(***************************************************************************)
(*              TOKEN READ ENDPOINT (routers/settings.py)                  *)
(***************************************************************************)

\* get_saved_token: the characters of a token shown unmasked
MaskKeep == 4

\* settings.py:53-56: all but the last MaskKeep characters are starred, and
\* every character of a token of at most MaskKeep
Masked(token) ==
    [i \in 1..Len(token) |->
        IF Len(token) > MaskKeep /\ i > Len(token) - MaskKeep THEN token[i] ELSE "*"]

TokenStatus(token, source, isActive) ==
    [read |-> TRUE, token |-> token, source |-> source, isActive |-> isActive]

NoTokenStatus == [read |-> FALSE, token |-> <<>>, source |-> "", isActive |-> FALSE]

\* get_saved_token: the answer for the token of the environment, the stored
\* value and the key of the process
GetSavedToken(env_token, config, key) ==
    IF env_token # NoToken /\ env_token # <<>>
    THEN \* the token of the environment is shown as a row of stars
         TokenStatus(<<"*">>, "env", TRUE)
    ELSE IF config.kind \in {"absent", "empty"}
    THEN TokenStatus(<<>>, "none", FALSE)
    ELSE TokenStatus(Masked(Decrypt(config, key)), "db", TRUE)

\* GET /token
ReadToken ==
    /\ tstat' = GetSavedToken(tcfg.env, tcfg.stored, tcfg.key)
    /\ UNCHANGED exceptTokenStatus

\* an answer is read by the client
TokenStatusRead ==
    /\ tstat.read
    /\ tstat' = NoTokenStatus
    /\ UNCHANGED exceptTokenStatus

TokenStatusNext ==
    \/ ReadToken
    \/ TokenStatusRead
    \/ \E token \in Strings : SaveToken(token)
    \/ \E key \in FernetKeys, env_token \in EnvTokens : Restart(key, env_token)
    \/ Corrupt

(***************************************************************************)
(*      REPOSITORY LISTING OF fetch-user (github_service.py:119-160)       *)
(***************************************************************************)

\* pages the repository listing of a user has at most
MaxPages == 2

\* what the request for one page meets: a 200 answer, another status, a
\* timeout
PageOutcomes == {"ok", "error", "timeout"}
PageRuns == [1..MaxPages -> PageOutcomes]

RECURSIVE ReposFrom(_, _, _, _)
\* the loop of fetch_user_repos from `page` on, `all_repos` holding the pages
\* read so far; the listing has `total` pages, each named by its number
ReposFrom(page, all_repos, total, outcomes) ==
    IF outcomes[page] # "ok"
    THEN [error |-> page = 1, repos |-> IF page = 1 THEN <<>> ELSE all_repos]
    ELSE IF page > total
    THEN [error |-> FALSE, repos |-> all_repos]
    ELSE IF page = total
    THEN [error |-> FALSE, repos |-> Append(all_repos, page)]
    ELSE ReposFrom(page + 1, Append(all_repos, page), total, outcomes)

\* fetch_user_repos: the list returned, or the list of one error marker
FetchUserRepos(total, outcomes) == ReposFrom(1, <<>>, total, outcomes)

\* [{"error": ...}] as a payload
ReposErrorPayload == "repos_error"
\* a list that lacks the later pages of the listing
TruncatedPayload == "repos_truncated"

\* the payload set_cached is given for the list fetch_user_repos returned
ReposPayload(result, total) ==
    IF result.error THEN ReposErrorPayload
    ELSE IF result.repos = <<>> THEN EmptyList
    ELSE IF Len(result.repos) = total THEN "repos_a"
    ELSE TruncatedPayload

\* fetch_user, lines 54-76, with the repository listing read page by page
FetchUpstreamPaged(h, profile, total, outcomes, readme) ==
    FetchUpstream(h, profile, ReposPayload(FetchUserRepos(total, outcomes), total), readme)

\* fetch-user requests one after another
FetchUserNext ==
    \/ \E h \in CReqs, user \in Users, refresh \in BOOLEAN :
          AloneAtCache(h) /\ NextReq(h) /\ FetchUser(h, user, refresh)
    \/ \E h \in CReqs, profile \in ProfilePayloads \cup {ErrorPayload},
          total \in 0..MaxPages, outcomes \in PageRuns,
          readme \in ReadmePayloads \cup {Miss} :
          FetchUpstreamPaged(h, profile, total, outcomes, readme)
    \/ \E h \in CReqs : PutSelect(h)
    \/ \E h \in CReqs : PutCommit(h)
    \/ \E h \in CReqs : CacheReturn(h)
    \/ CacheTick

(***************************************************************************)
(*        CONTRIBUTION GRAPH (routers/discovery.py, lines 242-286)         *)
(***************************************************************************)

\* background syncs waiting or running at one time
MaxSyncs == 2

NoGraphAnswer == [called |-> FALSE, refresh |-> FALSE, last_sync |-> FALSE,
                  scheduled |-> FALSE, commits |-> FALSE, loading |-> FALSE]

\* `marker`: a commits_synced entry that has not expired; `stored`: the table
\* of commits holds commits of the requested repositories; `tasks`: the
\* background syncs, each "scheduled" or "fetched"
NoGraph == [marker |-> FALSE, stored |-> FALSE, tasks |-> <<>>, res |-> NoGraphAnswer]

\* line 259
NeedsSync(refresh, last_sync) == refresh \/ ~last_sync

\* lines 269-284: a sync is added for a first load and for a refresh
Schedules(refresh, last_sync, commits) ==
    NeedsSync(refresh, last_sync) /\ (~commits \/ refresh)

\* POST /contribution-graph
GetContributionGraph(refresh) ==
    /\ ~cg.res.called
    /\ Len(cg.tasks) < MaxSyncs
    /\ LET last_sync == cg.marker
           commits == cg.stored
           add == Schedules(refresh, last_sync, commits)
       IN  cg' = [cg EXCEPT
                    !.tasks = IF add THEN Append(@, "scheduled") ELSE @,
                    !.res = [called |-> TRUE, refresh |-> refresh,
                             last_sync |-> last_sync, scheduled |-> add,
                             commits |-> commits, loading |-> add]]
    /\ UNCHANGED exceptGraph

\* the answer is sent
GraphReturn ==
    /\ cg.res.called
    /\ cg' = [cg EXCEPT !.res = NoGraphAnswer]
    /\ UNCHANGED exceptGraph

\* _sync_contribution_commits: fetch_all_commits_for_graph has returned;
\* `found`: it saved commits of the repositories
SyncFetch(i, found) ==
    /\ i \in 1..Len(cg.tasks)
    /\ cg.tasks[i] = "scheduled"
    /\ cg' = [cg EXCEPT !.tasks[i] = "fetched", !.stored = @ \/ found]
    /\ UNCHANGED exceptGraph

\* _sync_contribution_commits: set_cached writes the commits_synced marker
SyncMark(i) ==
    /\ i \in 1..Len(cg.tasks)
    /\ cg.tasks[i] = "fetched"
    /\ cg' = [cg EXCEPT !.marker = TRUE,
                        !.tasks = [k \in 1..(Len(@) - 1) |-> IF k < i THEN @[k] ELSE @[k + 1]]]
    /\ UNCHANGED exceptGraph

\* the commits_synced entry is older than the TTL of get_cached
MarkerExpires ==
    /\ cg.marker
    /\ cg' = [cg EXCEPT !.marker = FALSE]
    /\ UNCHANGED exceptGraph

GraphNext ==
    \/ \E refresh \in BOOLEAN : GetContributionGraph(refresh)
    \/ GraphReturn
    \/ \E i \in 1..MaxSyncs, found \in BOOLEAN : SyncFetch(i, found)
    \/ \E i \in 1..MaxSyncs : SyncMark(i)
    \/ MarkerExpires


\* ---------------------------------------------------------------------------
\* CHECK-UPDATES WORKERS (routers/watchlist.py, check_updates)
\*
\* check_updates reads the tracked repositories, starts one worker per
\* repository and awaits them all with asyncio.gather.  Each worker opens a
\* session of its own (async with async_session()), calls
\* fetch_latest_release with it, and leaves the block, which closes the
\* session.  fetch_latest_release makes one _request; _update_rate_limit
\* flushes and never commits.  After the gather the handler applies the
\* results to its own session and commits it.  All sessions share the one
\* connection of the StaticPool, so the tracker's actions Request,
\* UpdateRateLimit, Flush and Close above are the worker's steps.
\* ---------------------------------------------------------------------------

NoCheck == [pc |-> "idle", n |-> 0, ran |-> {}, wrote |-> {}]

\* every variable group but the tracker's and this section's
checkRest == <<orchVars, watchVars, clientVars, cacheVars, tokenVars, envVars,
               wsVars, adapterVars, entryVars, releaseVars, commitVars,
               countVars, statusVars, logVars, retryVars, downloadVars,
               tokenStatusVars, graphVars>>

\* the api_status rows a flush sent over the connection
RowsWritten(before, after) ==
    {after[k] : k \in {i \in 1..Len(after) : i > Len(before) \/ after[i] # before[i]}}

\* lines 160-164 and 185-189: the handler's SELECTs and the task list, one
\* worker per tracked repository
CheckUpdates ==
    /\ cu.pc = "idle"
    /\ \A r \in Requests : rpc[r] = "idle"
    /\ \E n \in 0..NumReq : cu' = [NoCheck EXCEPT !.pc = "gather", !.n = n]
    /\ UNCHANGED <<rlVars, checkRest>>

\* lines 168-173: the worker enters async with async_session() and
\* fetch_latest_release sends its one request
WorkerRequest(r) ==
    /\ cu.pc = "gather"
    /\ r \in 1..cu.n
    /\ r \notin cu.ran
    /\ Request(r)
    /\ cu' = [cu EXCEPT !.ran = @ \cup {r}]
    /\ UNCHANGED checkRest

\* github_service._update_rate_limit on the worker's session
WorkerUpdate(r) ==
    /\ cu.pc = "gather"
    /\ UpdateRateLimit(r)
    /\ UNCHANGED <<checkVars, checkRest>>

\* the flush of _update_rate_limit, lines 61-66
WorkerFlush(r) ==
    /\ cu.pc = "gather"
    /\ Flush(r)
    /\ cu' = [cu EXCEPT !.wrote =
                 IF \/ rsess[r].add.present
                    \/ \A i \in Dirty(rsess[r]) : i <= Len(conn)
                 THEN @ \cup RowsWritten(conn, conn')
                 ELSE @]
    /\ UNCHANGED checkRest

\* line 170: the worker leaves async with async_session(); the session is
\* closed without a commit
WorkerClose(r) ==
    /\ cu.pc = "gather"
    /\ r \in cu.ran
    /\ Close(r)
    /\ UNCHANGED <<checkVars, checkRest>>

\* lines 189-205: gather has every result; the handler commits its session
CheckCommit ==
    /\ cu.pc = "gather"
    /\ cu.ran = 1..cu.n
    /\ \A r \in Requests : rpc[r] = "idle"
    /\ disk' = conn
    /\ cu' = [cu EXCEPT !.pc = "committed"]
    /\ UNCHANGED <<conn, rpc, robs, rsess, nobs, checkRest>>

\* line 206: the response is returned and get_db closes the handler's session
CheckReturn ==
    /\ cu.pc = "committed"
    /\ conn' = disk
    /\ cu' = [cu EXCEPT !.pc = "returned"]
    /\ UNCHANGED <<disk, rpc, robs, rsess, nobs, checkRest>>

\* the next check_updates request
CheckDone ==
    /\ cu.pc = "returned"
    /\ cu' = NoCheck
    /\ UNCHANGED <<rlVars, checkRest>>

WorkersNext ==
    \/ CheckUpdates
    \/ \E r \in Requests : WorkerRequest(r)
    \/ \E r \in Requests : WorkerUpdate(r)
    \/ \E r \in Requests : WorkerFlush(r)
    \/ \E r \in Requests : WorkerClose(r)
    \/ CheckCommit
    \/ CheckReturn
    \/ CheckDone
(***************************************************************************)
(*                            SPECIFICATIONS                               *)
(***************************************************************************)

\* The backend as constructed: an empty database, a fresh GitHubService
\* (github_service.py:21-24) and ServerOrchestrator (server_service.py:38-42),
\* no request in flight.
Init ==
    /\ disk = <<>>
    /\ conn = disk
    /\ rpc = [r \in Requests |-> "idle"]
    /\ robs = [r \in Requests |-> NoResponse]
    /\ rsess = [r \in Requests |-> EmptySession]
    /\ nobs = [r \in Requests |-> 0]
    /\ servers = <<>>
    /\ next_port = BasePort
    /\ calls = [c \in Calls |-> IdleCall]
    /\ chld = {}
    /\ ext = {}
    /\ tracked = [id \in RepoIds |-> NoRepo]
    /\ wrun = IdleRun
    /\ now = 0
    /\ out = [direct |-> 0, sync |-> NoTasks, probes |-> [r \in Runs |-> NoTasks]]
    /\ cache = <<>>
    /\ creq = [h \in CReqs |-> IdleReq]
    /\ ctime = 0
    /\ tcfg = [env |-> NoToken, key |-> "k1", stored |-> NoRow]
    /\ tres = NoResolution
    /\ envrows = <<>>
    /\ eres = NoRead
    /\ wfs = NoDirs
    /\ wcalls = [c \in WsCalls |-> IdleWsCall]
    /\ aproc = {}
    /\ ares = NoStart
    /\ wl = NoEntries
    /\ wlconn = NoEntries
    /\ wlres = NoAnswer
    /\ wlrun = [r \in StampRuns |-> IdleStampRun]
    /\ wlq = NoStatements
    /\ wlnow = 0
    /\ rctable = <<>>
    /\ rcnow = 0
    /\ rcres = NoReleasesAnswer
    /\ rcput = [repo_id \in CacheRepos |-> NoPut]
    /\ ghist = [path \in GitRepos |-> <<>>]
    /\ grows = [path \in GitRepos |-> NotLoaded]
    /\ ccres = NoCount
    /\ strow = <<>>
    /\ stnow = 0
    /\ stres = NoStatusRead
    /\ logq = <<>>
    /\ logs = {}
    /\ logw = NewWorker
    /\ logn = 0
    /\ logc = NotCancelled
    /\ rtry = NoRetry
    /\ dl = NoDownload
    /\ tstat = NoTokenStatus
    /\ cg = NoGraph
    /\ cu = NoCheck

\* The backend started on a watchlist that tracks MaxTracked repositories.
StampInit ==
    /\ disk = <<>>
    /\ conn = disk
    /\ rpc = [r \in Requests |-> "idle"]
    /\ robs = [r \in Requests |-> NoResponse]
    /\ rsess = [r \in Requests |-> EmptySession]
    /\ nobs = [r \in Requests |-> 0]
    /\ servers = <<>>
    /\ next_port = BasePort
    /\ calls = [c \in Calls |-> IdleCall]
    /\ chld = {}
    /\ ext = {}
    /\ tracked = [id \in RepoIds |-> NoRepo]
    /\ wrun = IdleRun
    /\ now = 0
    /\ out = [direct |-> 0, sync |-> NoTasks, probes |-> [r \in Runs |-> NoTasks]]
    /\ cache = <<>>
    /\ creq = [h \in CReqs |-> IdleReq]
    /\ ctime = 0
    /\ tcfg = [env |-> NoToken, key |-> "k1", stored |-> NoRow]
    /\ tres = NoResolution
    /\ envrows = <<>>
    /\ eres = NoRead
    /\ wfs = NoDirs
    /\ wcalls = [c \in WsCalls |-> IdleWsCall]
    /\ aproc = {}
    /\ ares = NoStart
    /\ wl = FullWatchlist
    /\ wlconn = FullWatchlist
    /\ wlres = NoAnswer
    /\ wlrun = [r \in StampRuns |-> IdleStampRun]
    /\ wlq = NoStatements
    /\ wlnow = 0
    /\ rctable = <<>>
    /\ rcnow = 0
    /\ rcres = NoReleasesAnswer
    /\ rcput = [repo_id \in CacheRepos |-> NoPut]
    /\ ghist = [path \in GitRepos |-> <<>>]
    /\ grows = [path \in GitRepos |-> NotLoaded]
    /\ ccres = NoCount
    /\ strow = <<>>
    /\ stnow = 0
    /\ stres = NoStatusRead
    /\ logq = <<>>
    /\ logs = {}
    /\ logw = NewWorker
    /\ logn = 0
    /\ logc = NotCancelled
    /\ rtry = NoRetry
    /\ dl = NoDownload
    /\ tstat = NoTokenStatus
    /\ cg = NoGraph
    /\ cu = NoCheck

\* The backend restarted on a database whose api_status is empty or holds
\* the row an earlier run left.
RLInit ==
    /\ disk \in {<<>>} \cup {<<row>> : row \in InitRows}
    /\ conn = disk
    /\ rpc = [r \in Requests |-> "idle"]
    /\ robs = [r \in Requests |-> NoResponse]
    /\ rsess = [r \in Requests |-> EmptySession]
    /\ nobs = [r \in Requests |-> 0]
    /\ servers = <<>>
    /\ next_port = BasePort
    /\ calls = [c \in Calls |-> IdleCall]
    /\ chld = {}
    /\ ext = {}
    /\ tracked = [id \in RepoIds |-> NoRepo]
    /\ wrun = IdleRun
    /\ now = 0
    /\ out = [direct |-> 0, sync |-> NoTasks, probes |-> [r \in Runs |-> NoTasks]]
    /\ cache = <<>>
    /\ creq = [h \in CReqs |-> IdleReq]
    /\ ctime = 0
    /\ tcfg = [env |-> NoToken, key |-> "k1", stored |-> NoRow]
    /\ tres = NoResolution
    /\ envrows = <<>>
    /\ eres = NoRead
    /\ wfs = NoDirs
    /\ wcalls = [c \in WsCalls |-> IdleWsCall]
    /\ aproc = {}
    /\ ares = NoStart
    /\ wl = NoEntries
    /\ wlconn = NoEntries
    /\ wlres = NoAnswer
    /\ wlrun = [r \in StampRuns |-> IdleStampRun]
    /\ wlq = NoStatements
    /\ wlnow = 0
    /\ rctable = <<>>
    /\ rcnow = 0
    /\ rcres = NoReleasesAnswer
    /\ rcput = [repo_id \in CacheRepos |-> NoPut]
    /\ ghist = [path \in GitRepos |-> <<>>]
    /\ grows = [path \in GitRepos |-> NotLoaded]
    /\ ccres = NoCount
    /\ strow = <<>>
    /\ stnow = 0
    /\ stres = NoStatusRead
    /\ logq = <<>>
    /\ logs = {}
    /\ logw = NewWorker
    /\ logn = 0
    /\ logc = NotCancelled
    /\ rtry = NoRetry
    /\ dl = NoDownload
    /\ tstat = NoTokenStatus
    /\ cg = NoGraph
    /\ cu = NoCheck

\* GitHub requests handled one after another
SpecRLSeq == RLInit /\ [][RLSeqNext]_vars

\* GitHub requests handled concurrently
SpecRL == RLInit /\ [][RLNext]_vars

\* The orchestrator, its callers, its children and the other processes
SpecOrch == Init /\ [][OrchNext]_vars

\* The orchestrator with overlapping start_server calls, children that live
\* until they are stopped and ports nobody else binds.
SpecOrchConc == Init /\ [][OrchConcNext]_vars

\* The watchlist and its check_updates runs
SpecWatch == Init /\ [][WatchNext]_vars

\* The coroutines that call the GitHub client
SpecClient == Init /\ [][ClientNext]_vars

\* The cache used by one handler after another
SpecCacheSeq == Init /\ [][CacheSeqNext]_vars

\* The cache used by handlers that interleave
SpecCache == Init /\ [][CacheNext]_vars

\* The token resolver, the saved token and the restarts of the process
SpecToken == Init /\ [][TokenNext]_vars

\* The environment variables set and read through the env service
SpecEnv == Init /\ [][EnvNext]_vars

\* calls of create_workspace and delete_workspace, overlapping as the thread
\* pool runs them
SpecWorkspace == Init /\ [][WsNext]_vars

\* calls of StaticHTMLAdapter.start
SpecAdapter == Init /\ [][AdapterNext]_vars

\* add_by_url, remove_repo and import_watchlist, one request after another
SpecEntries == Init /\ [][EntriesNext]_vars

\* overlapping check_updates runs on a full watchlist
SpecStamps == StampInit /\ [][StampNext]_vars

\* get_cached_releases, cache_releases and invalidate_cache, one call after another
SpecReleases == Init /\ [][ReleasesNext]_vars

\* add_local_repo and resync_commits, one request after another, on histories
\* that grow
SpecCommits == Init /\ [][CommitsNext]_vars

\* calls of fetch_commit_count over the answers of GitHub
SpecCount == Init /\ [][CountNext]_vars

\* reads of the API status between the requests of other handlers
SpecStatus == Init /\ [][StatusNext]_vars

\* the log worker from the start of the backend to its shutdown
SpecLogs == Init /\ [][LogsNext]_vars

\* one start_server call after another through the retry loop
SpecRetry == Init /\ [][RetryNext]_vars

\* download-asset requests, one after another
SpecDownload == Init /\ [][DownloadNext]_vars

\* the token read endpoint between saves of the token and restarts
SpecTokenStatus == Init /\ [][TokenStatusNext]_vars

\* fetch-user with the repository listing read page by page
SpecFetchUser == Init /\ [][FetchUserNext]_vars

\* contribution-graph requests and the background syncs they schedule
SpecGraph == Init /\ [][GraphNext]_vars

\* one check_updates request after another, each with its workers; the
\* api_status table may hold a row at the start
SpecWorkers == RLInit /\ [][WorkersNext]_vars

(***************************************************************************)
(*                         RATE-LIMIT TRACKER: CLAIMS                      *)
(***************************************************************************)

Downgraded(old, new) ==
    /\ old.token_source \in AuthedSources
    /\ new.token_source = "none"
    /\ new.limit < old.limit

\* C1 (SpecRLSeq).  Non-downgrade rule, observations processed one after
\* another: when the stored row has token_source env, db or authed and the
\* observation has source none and a limit lower than the stored limit, the
\* observation is dropped: no statement is sent (the call returns without a
\* flush) and the stored row keeps limit, remaining, reset_time and
\* token_source.
NonDowngradeDrop ==
    [][\A r \in Requests :
          ( /\ UpdateRateLimit(r)
            /\ robs[r].headers.kind = "ok"
            /\ Len(conn) > 0
            /\ conn[1].token_source \in AuthedSources
            /\ NewSource(robs[r].token_source, robs[r].headers.limit) = "none"
            /\ robs[r].headers.limit < conn[1].limit )
          => ( /\ conn' = conn
               /\ disk' = disk
               /\ rpc'[r] = "handler"
               /\ ~rsess'[r].add.present
               /\ Dirty(rsess'[r]) = {} )]_vars

\* The spec's example: stored (5000, 4800, db), then an unauthenticated
\* (60, 59) response has been processed and the row is still (5000, 4800, db).
WitnessNonDowngradeDrop ==
    \E r \in Requests :
        /\ rpc[r] = "handler"
        /\ robs[r] = [headers |-> [kind |-> "ok", limit |-> 60, remaining |-> 59,
                                     reset |-> 1],
                       token_source |-> "None"]
        /\ rsess[r].objs[1].present
        /\ conn = <<[limit |-> 5000, remaining |-> 4800, reset_time |-> 2,
                      token_source |-> "db"]>>
        /\ disk = conn

\* C2 (SpecRL).  The non-downgrade rule across concurrent requests: no
\* statement a request sends changes a stored row from an authenticated
\* snapshot (token_source env, db or authed, limit L) to a snapshot with
\* token_source none and a limit lower than L.
NoDowngradeAcrossRequests ==
    [][\A r \in Requests :
          Flush(r) =>
             \A i \in 1..Len(conn) :
                 i <= Len(conn') => ~Downgraded(conn[i], conn'[i])]_vars

(***************************************************************************)
(*                       REPLAY ORCHESTRATOR: CLAIMS                       *)
(***************************************************************************)

\* C3 (SpecOrch).  Every instance of the registry with status running has a
\* port in 1024..65535 and a child process that is alive.
RunningPortAndAlive ==
    \A i \in 1..Len(servers) :
        servers[i].status = "running" =>
            ValidPort(servers[i].port) /\ Alive(servers[i].pid)

\* The instances of `key` that are running.
RunningOf(key) ==
    {i \in 1..Len(servers) : servers[i].key = key /\ servers[i].status = "running"}

\* C4 (SpecOrch).  start_server for a (repo_id, commit_hash) that has a
\* running instance returns that instance at once: no child is spawned, no
\* port is allocated, and the registry and the port counter are unchanged.
IdempotentForRunning ==
    [][\A c \in Calls, key \in Keys, preferred \in PreferredPorts, files \in Listings :
          (StartServer(c, key, preferred, files) /\ RunningOf(key) # {})
          => ( /\ servers' = servers
               /\ next_port' = next_port
               /\ chld' = chld
               /\ ext' = ext
               /\ calls'[c].pc = "done"
               /\ calls'[c].starts = 0
               /\ calls'[c].allocs = 0
               /\ \E i \in RunningOf(key) : calls'[c].result = servers[i] )]_vars

\* start_server has returned the running instance it found, while another
\* instance exists too.
WitnessIdempotent ==
    \E c \in Calls :
        /\ calls[c].pc = "done"
        /\ calls[c].mode = "existing"
        /\ calls[c].result.status = "running"
        /\ Alive(calls[c].result.pid)
        /\ Len(servers) = 2

\* C5 (SpecOrch).  start_server for a (repo_id, commit_hash) whose instance is
\* stopped or failed, however it became so, restarts it on its id and port:
\* a child is started, and unless that child could not be served (it exited)
\* the instance returned is the same id on the same port, running, no error.
RestartReturnsRunning ==
    \A c \in Calls :
        (calls[c].pc = "done" /\ calls[c].mode = "restart")
        => \/ /\ calls[c].result.status = "running"
              /\ calls[c].result.error = "none"
              /\ calls[c].result.id = calls[c].id
              /\ calls[c].result.port = calls[c].port
           \/ /\ calls[c].starts > 0
              /\ calls[c].result.status = "failed"

\* The instance carrying `id` in the registry `srv`.
InstanceIn(srv, id) == srv[CHOOSE i \in 1..Len(srv) : srv[i].id = id]

\* C6 (SpecOrch), as claimed.  failed and stopped are terminal: an instance
\* that is failed or stopped and stays in the registry keeps its status.
FailedStoppedTerminal ==
    [][\A i \in 1..Len(servers) :
          LET old == servers[i]
          IN  (old.status \in {"failed", "stopped"} /\ old.id \in Ids')
              => InstanceIn(servers', old.id).status = old.status]_vars

\* C6 (SpecOrch), amended.  The status of a failed or stopped instance that
\* stays in the registry changes only when start_server restarts it for its
\* own (repo_id, commit_hash), on its id and port, to running or failed, or
\* when stop_server / stop_all turn failed into stopped.
FailedStoppedChangeOnlyByRestartOrStop ==
    [][\A i \in 1..Len(servers) :
          LET old == servers[i]
              new == InstanceIn(servers', old.id)
          IN  ( /\ old.status \in {"failed", "stopped"}
                /\ old.id \in Ids'
                /\ new.status # old.status )
              => \/ /\ \E c \in Calls :
                         /\ calls[c].pc # "done"
                         /\ calls'[c].pc = "done"
                         /\ calls'[c].mode = "restart"
                         /\ calls'[c].id = old.id
                         /\ calls'[c].key = old.key
                    /\ new.status \in {"running", "failed"}
                    /\ new.port = old.port
                    /\ new.key = old.key
                 \/ /\ calls' = calls
                    /\ old.status = "failed"
                    /\ new = Stopped(old)]_vars

\* A stopped instance has been restarted and runs again on its port.
WitnessRestarted ==
    \E c \in Calls :
        /\ calls[c].pc = "done"
        /\ calls[c].mode = "restart"
        /\ calls[c].result.status = "running"
        /\ calls[c].result.port = BasePort
        /\ Alive(calls[c].result.pid)

\* C7 (SpecOrch).  A start_server call whose start attempts all fail with a
\* port-bind error returns its failed instance after exactly three attempts,
\* not earlier.
ThreeAttemptsOnBindFailure ==
    \A c \in Calls :
        ( /\ calls[c].pc = "done"
          /\ calls[c].mode = "new"
          /\ calls[c].bindfail
          /\ calls[c].result.status = "failed" )
        => calls[c].starts = max_retries

\* C8 (SpecOrch).  A start attempt of a new instance that fails because the
\* child cannot bind the allocated port is retried: while attempts are left,
\* start_server does not return on it.
BindFailureRetried ==
    [][\A c \in Calls :
          ( /\ Probe(c)
            /\ calls[c].mode = "new"
            /\ calls[c].bindfail
            /\ calls[c].starts < max_retries )
          => calls'[c].pc # "done"]_vars

\* C9 (SpecOrch).  Port allocation, for a start_server call that allocates
\* (no instance of the key, an adapter found): the preferred port is returned
\* when given and free; otherwise the first free port among the MaxProbes
\* ports from the counter on is returned and the counter becomes that port
\* + 1; when none of them is free no port is returned (the call ends failed
\* on port 0) and the counter is unchanged.  The counter never decreases.
AllocationContract ==
    [][ /\ next_port' >= next_port
        /\ \A c \in Calls, key \in Keys, preferred \in PreferredPorts :
              (StartServer(c, key, preferred, <<IndexHtml>>) /\ ExistingIndex(key) = 0)
              => LET probed == next_port..(next_port + MaxProbes - 1)
                     prefFree == preferred # NoPort /\ IsPortAvailable(preferred)
                     got == calls'[c].port
                 IN  /\ prefFree => got = preferred
                     /\ (~prefFree /\ \E p \in probed : IsPortAvailable(p))
                        => /\ got \in probed
                           /\ IsPortAvailable(got)
                           /\ \A q \in probed : q < got => ~IsPortAvailable(q)
                           /\ next_port' = got + 1
                           /\ calls'[c].pc = "probe"
                     /\ (~prefFree /\ \A p \in probed : ~IsPortAvailable(p))
                        => /\ calls'[c].pc = "done"
                           /\ calls'[c].result.status = "failed"
                           /\ calls'[c].result.port = 0
                           /\ calls'[c].starts = 0
                           /\ next_port' = next_port ]_vars

\* The counter found its first port busy, returned the next one and moved
\* past it.
WitnessAllocation ==
    \E c \in Calls :
        /\ calls[c].pc = "probe"
        /\ calls[c].mode = "new"
        /\ calls[c].port = BasePort + 1
        /\ next_port = BasePort + 2
        /\ BasePort \in ext
        /\ ~calls[c].bindfail

\* Every probed port was busy: the call has ended failed, with no port.
WitnessAllocationFailure ==
    \E c \in Calls :
        /\ calls[c].pc = "done"
        /\ calls[c].allocs = max_retries
        /\ calls[c].result.error = "exhausted"

(***************************************************************************)
(*                     WATCHLIST UPDATE ENGINE: CLAIMS                     *)
(***************************************************************************)

\* C10 (SpecWatch).  When check_updates commits: a tracked repo whose probe
\* returned the tag T has latest_version T, current_version T if it was
\* "Not Checked" and its old current_version otherwise, and last_checked at
\* the time of the run; a repo whose probe returned no release keeps all
\* three; updates_found counts the repos whose stored latest_version
\* differed from T.
CheckUpdatesReconciles ==
    [][CheckUpdatesApply =>
          /\ \A id \in Present(tracked) :
                LET old == tracked[id]
                    new == tracked'[id]
                    info == wrun.results[id]
                IN  IF info.has_latest
                    THEN /\ new.latest_version = info.new_latest
                         /\ new.current_version =
                               IF old.current_version = NOT_CHECKED
                               THEN info.new_latest ELSE old.current_version
                         /\ new.last_checked = now
                    ELSE new = old
          /\ wrun'.updates_found =
                Cardinality({id \in Present(tracked) :
                                /\ wrun.results[id].has_latest
                                /\ tracked[id].latest_version # wrun.results[id].new_latest})
      ]_vars

\* A run has committed: one repo that was "Not Checked" took the tag found
\* and was counted, another had no release and kept its row.
WitnessCheckUpdates ==
    /\ wrun.pc = "done"
    /\ wrun.updates_found = 1
    /\ \E id, other \in Present(tracked) :
          /\ id # other
          /\ wrun.results[id].updated
          /\ wrun.results[id].set_current
          /\ tracked[id].current_version = wrun.results[id].new_latest
          /\ tracked[id].latest_version = wrun.results[id].new_latest
          /\ tracked[id].last_checked = now
          /\ ~wrun.results[other].has_latest
          /\ tracked[other].last_checked < now

(***************************************************************************)
(*                      GITHUB CLIENT ADMISSION: CLAIMS                    *)
(***************************************************************************)

\* C11 (SpecClient).  At every moment at most five outbound GitHub requests
\* issued through the client are in flight, however many inbound requests
\* are handled at the same time.
AtMostFiveInFlight == InFlight <= SemLimit

(***************************************************************************)
(*                          RESPONSE CACHE: CLAIMS                         *)
(***************************************************************************)

\* The rows of (user, kind) that are not older than the TTL.
FreshRows(user, kind) ==
    {i \in 1..Len(cache) : /\ cache[i].username = user
                           /\ cache[i].endpoint_type = kind
                           /\ ctime - cache[i].last_updated <= TtlTicks}

\* C12 (SpecCacheSeq).  get returns the stored payload exactly when an entry
\* of (user, kind) exists whose age is not greater than the TTL, reports a
\* miss otherwise, and never changes the store; put leaves exactly one entry
\* of its key, carrying its payload and the time of the put, adds a row only
\* when the key had none, and leaves the other rows alone.
CacheContract ==
    [][ /\ \A h \in CReqs, user \in Users, kind \in Kinds :
              Get(h, user, kind)
              => /\ cache' = cache
                 /\ ~creq'[h].err
                 /\ IF FreshRows(user, kind) # {}
                    THEN \E i \in FreshRows(user, kind) : creq'[h].ret = <<cache[i].data>>
                    ELSE creq'[h].ret = <<Miss>>
        /\ \A h \in CReqs :
              PutCommit(h)
              => LET user == creq[h].user
                     put == Head(creq[h].todo)
                     before == Matching(cache, user, put.kind)
                     after == Matching(cache', user, put.kind)
                 IN  /\ Cardinality(after) = 1
                     /\ \A i \in after :
                           /\ cache'[i].data = put.data
                           /\ cache'[i].last_updated = creq[h].stamp
                           /\ ctime - cache'[i].last_updated <= TtlTicks
                              => GetCached(cache', user, put.kind, ctime).data = put.data
                     /\ Len(cache') = Len(cache) + (IF before = {} THEN 1 ELSE 0)
                     /\ \A j \in 1..Len(cache) : j \notin before => cache'[j] = cache[j]
      ]_vars

\* A get has returned the payload of an entry that is exactly as old as the
\* TTL, after a put had replaced the payload of the key.
WitnessCacheHit ==
    \E h \in CReqs, i \in 1..Len(cache) :
        /\ creq[h].pc = "done"
        /\ creq[h].op = "get"
        /\ creq[h].ret = <<cache[i].data>>
        /\ cache[i].data = EmptyList
        /\ cache[i].last_updated > 0
        /\ ctime - cache[i].last_updated = TtlTicks

\* C13 (SpecCache).  Whatever the interleaving of the puts, the store holds
\* at most one entry per (username, endpoint_type).
OneEntryPerKey ==
    \A user \in Users, kind \in Kinds : Cardinality(Matching(cache, user, kind)) <= 1

\* C14 (SpecCacheSeq).  fetch-user without refresh, with entries of the
\* user's profile and repos that are not older than the TTL, whatever their
\* payloads, returns the cached payloads and sends no request to GitHub.
FreshCacheNoUpstream ==
    [][\A h \in CReqs, user \in Users :
          ( /\ FetchUser(h, user, FALSE)
            /\ FreshRows(user, "profile") # {}
            /\ FreshRows(user, "repos") # {} )
          => /\ creq'[h].pc = "done"
             /\ creq'[h].outbound = 0
             /\ \E i \in FreshRows(user, "profile") : creq'[h].ret[1] = cache[i].data
             /\ \E i \in FreshRows(user, "repos") : creq'[h].ret[2] = cache[i].data
      ]_vars

(***************************************************************************)
(*                         TOKEN RESOLVER: CLAIMS                          *)
(***************************************************************************)

\* C15 (SpecToken).  The resolver returns (trimmed request token, request)
\* when the request token is non-empty after trimming; else (environment
\* token, env) when one is configured; else (stored token, db) when the
\* stored value decrypts to a non-empty string; else (none, none).  A stored
\* value that cannot be decrypted gives (none, none); nothing is raised.
TokenResolutionOrdered ==
    [][\A request_token \in Strings \cup {NoToken} :
          ResolveToken(request_token)
          => LET inRequest == /\ request_token # NoToken
                              /\ \E i \in 1..Len(request_token) : request_token[i] # " "
                 inEnv == tcfg.env # NoToken /\ Len(tcfg.env) > 0
                 inDb == /\ tcfg.stored.kind = "cipher"
                         /\ tcfg.stored.key = tcfg.key
                         /\ Len(tcfg.stored.plain) > 0
             IN  /\ ~tres'.raised
                 /\ tres'.request = request_token
                 /\ IF inRequest
                    THEN /\ tres'.source = "request"
                         /\ Len(tres'.token) > 0
                         /\ tres'.token[1] # " "
                         /\ tres'.token[Len(tres'.token)] # " "
                         /\ \E first, last \in 1..Len(request_token) :
                               /\ tres'.token = SubSeq(request_token, first, last)
                               /\ \A i \in 1..(first - 1) : request_token[i] = " "
                               /\ \A i \in (last + 1)..Len(request_token) :
                                     request_token[i] = " "
                    ELSE IF inEnv
                    THEN tres'.source = "env" /\ tres'.token = tcfg.env
                    ELSE IF inDb
                    THEN tres'.source = "db" /\ tres'.token = tcfg.stored.plain
                    ELSE tres'.source = "none" /\ tres'.token = NoToken
      ]_vars

\* A request without a token was resolved to (none, none) although a token is
\* stored: the key in use cannot decrypt it.
WitnessUndecryptable ==
    /\ tres.source = "none"
    /\ tres.request = <<" ">>
    /\ tcfg.env = <<>>
    /\ tcfg.stored.kind = "cipher"
    /\ tcfg.stored.key # tcfg.key

\* A padded request token won over the environment and the store.
WitnessRequestToken ==
    /\ tres.source = "request"
    /\ tres.request = <<" ", "a">>
    /\ tres.token = <<"a">>
    /\ tcfg.env = <<"a">>
    /\ tcfg.stored.kind = "cipher"

(***************************************************************************)
(*                 SCOPED ENVIRONMENT VARIABLES: CLAIMS                    *)
(***************************************************************************)

\* The rows of exactly this scope, repository and commit that set `key`.
RowsSetting(target, key) ==
    {i \in 1..Len(envrows) : /\ envrows[i].key = key
                             /\ envrows[i].scope = target.scope
                             /\ envrows[i].repository_id = target.repo_id
                             /\ envrows[i].commit_hash = target.commit_hash}

\* The value the scope gives to `key`: that of its newest row.
ScopeValue(target, key) ==
    LET i == CHOOSE j \in RowsSetting(target, key) :
                 \A o \in RowsSetting(target, key) : o <= j
    IN  DecryptValue(envrows[i].value)

\* C16 (SpecEnv).  get_merged(r, c)[k] is the commit-scope value of (r, c)
\* if k is set there, else the project-scope value of r if set there, else
\* the global value; k is absent only if no scope sets it.
MergedByPrecedence ==
    [][(eres'.op = "merged" /\ ReadMerged(eres'.target))
          => \A k \in EnvKeys :
                LET target == eres'.target
                    commit == target
                    project == [scope |-> "project", repo_id |-> target.repo_id,
                                commit_hash |-> NoCommit]
                    global == [scope |-> "global", repo_id |-> NoRepoId,
                               commit_hash |-> NoCommit]
                IN  eres'.merged[k] =
                       IF RowsSetting(commit, k) # {} THEN ScopeValue(commit, k)
                       ELSE IF RowsSetting(project, k) # {} THEN ScopeValue(project, k)
                       ELSE IF RowsSetting(global, k) # {} THEN ScopeValue(global, k)
                       ELSE Unset
      ]_vars

\* A merge has taken one key from the commit scope over the project scope
\* and another from the global scope.
WitnessMerged ==
    /\ eres.op = "merged"
    /\ eres.target = [scope |-> "commit", repo_id |-> 7, commit_hash |-> "abc1234"]
    /\ eres.merged["A"] = <<"a">>
    /\ eres.merged["B"] = <<"a", "a">>
    /\ \E i, j, l \in 1..Len(envrows) :
          /\ envrows[i].scope = "commit" /\ envrows[i].key = "A"
          /\ envrows[j].scope = "project" /\ envrows[j].key = "A"
          /\ envrows[j].value.plain = <<"a", "a">>
          /\ envrows[l].scope = "global" /\ envrows[l].key = "B"

\* How often the pair is in the list.
Occurrences(pairs, pair) == Cardinality({i \in 1..Len(pairs) : pairs[i] = pair})

\* C17 (SpecEnv).  After set(scope, vars, repo_id, commit_hash), reading the
\* same scope with the same repo_id and commit_hash returns exactly the
\* (key, plaintext value) pairs of vars, whatever the scope held before, and
\* the rows of every other scope, repository or commit are unchanged.
SetThenGet ==
    [][(eres'.op = "set" /\ SetVars(eres'.target, eres'.request))
          => LET target == eres'.target
                 var_list == eres'.request
                 reading ==
                    IF target.scope = "global" THEN GetGlobalVars(envrows')
                    ELSE IF target.scope = "project"
                    THEN GetProjectVars(envrows', target.repo_id)
                    ELSE GetCommitVars(envrows', target.repo_id, target.commit_hash)
                 other(row) == \/ row.scope # target.scope
                               \/ row.repository_id # target.repo_id
                               \/ row.commit_hash # target.commit_hash
             IN  /\ Len(reading) = Len(var_list)
                 /\ \A pair \in {var_list[i] : i \in 1..Len(var_list)}
                              \cup {reading[i] : i \in 1..Len(reading)} :
                       Occurrences(reading, pair) = Occurrences(var_list, pair)
                 /\ SelectSeq(envrows', other) = SelectSeq(envrows, other)
      ]_vars

\* A set has replaced the rows of one commit while another commit of the
\* same repository kept its own.
WitnessSetVars ==
    /\ eres.op = "set"
    /\ eres.target = [scope |-> "commit", repo_id |-> 7, commit_hash |-> "abc1234"]
    /\ Len(eres.vars) = 2
    /\ \E i \in 1..Len(envrows) :
          /\ envrows[i].scope = "commit"
          /\ envrows[i].repository_id = 7
          /\ envrows[i].commit_hash = "def5678"

(***************************************************************************)
(*                     Claims on the commit workspaces                     *)
(***************************************************************************)

\* C18: every workspace directory create_workspace materializes has a
\* canonical path below the workspaces root.
WorkspacesUnderRoot ==
    \A p \in DOMAIN wfs :
        p # Canonical(WorkspacesDir) /\ IsRelativeTo(p, Canonical(WorkspacesDir))

\* the checkouts that are making directory p
CheckingOut(p) == {c \in WsCalls : wcalls[c].pc \notin {"idle", "done"} /\ wcalls[c].path = p}

\* C20: a create_workspace that finds the directory of the commit on disk
\* while no checkout of it is under way returns a directory that holds every
\* member of the commit: a failed checkout left nothing behind.
NoPartialWorkspaceReturned ==
    [][\A c \in WsCalls :
          (/\ wcalls[c].pc = "idle"
           /\ wcalls'[c].pc = "done"
           /\ wcalls'[c].status = "ok"
           /\ CheckingOut(wcalls'[c].path) = {})
          => wfs[wcalls'[c].path] = ArchiveMembers]_vars

(***************************************************************************)
(*                   Claims on the Static HTML adapter                     *)
(***************************************************************************)

\* C19: start answers invalid-port for every port outside [1024, 65535],
\* whatever the workspace; for a port inside the range it answers
\* invalid-workspace when the canonical workspace path is not inside the
\* workspaces root; in both cases no child process is spawned.
StartPreconditions ==
    [][LET workspace_path == ares'.workspace_path
           port == ares'.port
       IN (\E child \in ChildOutcomes : AdapterStart(workspace_path, port, child)) =>
              /\ (port < 1024 \/ port > 65535) =>
                     ares'.outcome = "invalid_port" /\ aproc' = aproc
              /\ (/\ 1024 <= port /\ port <= 65535
                  /\ ~IsRelativeTo(Canonical(workspace_path), WorkspacesDir)) =>
                     ares'.outcome = "invalid_workspace" /\ aproc' = aproc]_vars

\* start was given a port in the range and a path that leaves the root
\* through "..", and refused the workspace
WitnessUnsafeWorkspace ==
    /\ ares.outcome = "invalid_workspace"
    /\ ares.port = 1024
    /\ ares.workspace_path = GetWorkspacePath(DotDot, <<"a">>)
    /\ aproc # {}

(***************************************************************************)
(*               Claims on the rate-limit snapshot as a singleton          *)
(***************************************************************************)

\* C27: the committed api_status table holds at most one row, whatever the
\* interleaving of the observations.
ApiStatusSingleton == Len(disk) <= 1

(***************************************************************************)
(*                    Claims on the removal of instances                   *)
(***************************************************************************)

\* the registry without the instance of this id, the others as they were
RegistryWithout(id) ==
    [i \in 1..(Len(servers) - 1) |->
        IF i < (CHOOSE j \in 1..Len(servers) : servers[j].id = id)
        THEN servers[i] ELSE servers[i + 1]]

\* C28: remove_server deletes exactly the named instance when it is stopped
\* or failed, and leaves the registry as it is when the instance is running
\* or the id is unknown; no instance of the registry has status starting.
RemoveOnlyWhenNotRunning ==
    /\ [](\A i \in 1..Len(servers) : servers[i].status \in {"running", "stopped", "failed"})
    /\ [][\A id \in ServerIds :
             RemoveServer(id) =>
                 IF id \in Ids /\ InstanceOf(id).status \in {"stopped", "failed"}
                 THEN servers' = RegistryWithout(id)
                 ELSE servers' = servers]_vars

\* instance 1 was removed and instance 2, running, is still registered
WitnessRemoved ==
    /\ Len(servers) = 1
    /\ servers[1].id = 2
    /\ servers[1].status = "running"
    /\ \A c \in Calls : calls[c].pc = "idle"

(***************************************************************************)
(*                   Claims on the watchlist entries                       *)
(***************************************************************************)

\* C24: the watchlist holds at most one tracked repo per (owner, repo_name);
\* add_by_url of a tracked pair answers 409 and remove_repo of an unknown id
\* answers 404, each leaving the watchlist as it was.
WatchlistUnique ==
    /\ [](\A i, j \in Tracked(wl) :
             (wl[i].owner = wl[j].owner /\ wl[i].repo_name = wl[j].repo_name) => i = j)
    /\ [][/\ (/\ wlres'.op = "add"
              /\ \E meta_found \in BOOLEAN : AddEntry(wlres'.owner, wlres'.name, meta_found)
              /\ \E id \in Tracked(wl) :
                    wl[id].owner = wlres'.owner /\ wl[id].repo_name = wlres'.name)
             => (wlres'.status = 409 /\ wl' = wl)
          /\ (/\ wlres'.op = "remove"
              /\ RemoveEntry(wlres'.id)
              /\ wlres'.id \notin Tracked(wl))
             => (wlres'.status = 404 /\ wl' = wl)]_vars

\* add_by_url of a pair the watchlist tracks, beside another tracked pair,
\* was answered with a conflict
WitnessConflict ==
    /\ wlres.op = "add"
    /\ wlres.status = 409
    /\ Cardinality(Tracked(wl)) = 2
    /\ \E id \in Tracked(wl) : wl[id].owner = wlres.owner /\ wl[id].repo_name = wlres.name

\* the (owner, repo_name, current_version) triples of a watchlist
Triples(rows) ==
    {<<rows[id].owner, rows[id].repo_name, rows[id].current_version>> : id \in Tracked(rows)}

\* C30: importing the document exported from a watchlist into an empty
\* watchlist gives the same (owner, repo_name, current_version) triples, and
\* importing it into the watchlist it came from leaves every row as it was.
ExportImportRoundTrip ==
    /\ Triples(Imported(NoEntries, ExportWatchlist(wl), wlnow)) = Triples(wl)
    /\ Imported(wl, ExportWatchlist(wl), wlnow) = wl

\* the export of two repositories, one checked and one not, was imported
\* into the emptied watchlist
WitnessReimported ==
    /\ wlres.op = "reimport"
    /\ Cardinality(Tracked(wl)) = 2
    /\ \E i, j \in Tracked(wl) : wl[i].current_version = "v1" /\ wl[j].current_version = NOT_CHECKED
    /\ Tracked(wl) = {1, 2}

\* C25: the committed last_checked of a tracked repo never decreases.
LastCheckedNonDecreasing ==
    [][\A id \in EntryIds :
          (wl[id].present /\ wl'[id].present) => wl'[id].last_checked >= wl[id].last_checked]_vars

(***************************************************************************)
(*                      Claims on the release cache                        *)
(***************************************************************************)

\* the answer `item` of get_cached_releases is the release `release` as
\* cache_releases stores it: its own assets, then the zip and the tar
\* archive where GitHub gave their url
AnswersRelease(item, release) ==
    LET archives == SelectSeq(<<release.zipball_url, release.tarball_url>>,
                              LAMBDA url : url # NoUrl)
        n == Len(release.assets)
    IN /\ item.tag_name = release.tag_name
       /\ Len(item.assets) = n + Len(archives)
       /\ \A k \in 1..n :
             item.assets[k].download_url = release.assets[k].browser_download_url
       /\ \A k \in 1..Len(archives) :
             item.assets[n + k].download_url = archives[k]
       /\ release.zipball_url # NoUrl => item.assets[n + 1].name = "Source Code (zip)"
       /\ release.tarball_url # NoUrl => item.assets[Len(item.assets)].name = "Source Code (tar.gz)"

\* C21: get_cached_releases answers None exactly when the repo has no
\* cached rows or they are older than the TTL, and otherwise the releases of
\* the last cache_releases of the repo by published_at descending, each with
\* its assets followed by the zip and the tar archive; cache_releases
\* replaces the group of the repo and leaves the other groups alone; after
\* invalidate_cache the answer is None.
ReleaseCacheContract ==
    /\ [][\A repo_id \in CacheRepos :
            GetCachedReleases(repo_id) =>
                LET last == rcput[repo_id]
                    answer == rcres'.releases
                IN /\ rcres'.found <=>
                         /\ last.put
                         /\ last.releases # <<>>
                         /\ rcnow - last.at <= RELEASE_CACHE_TTL_MINUTES
                   /\ rcres'.found =>
                         /\ \A i \in 1..(Len(answer) - 1) :
                               answer[i].published_at.iso >= answer[i + 1].published_at.iso
                         /\ Len(answer) = Len(last.releases)
                         /\ \E f \in OneToOne(Len(answer)) :
                               \A i \in 1..Len(answer) :
                                  AnswersRelease(answer[i], last.releases[f[i]])]_vars
    /\ [][\A repo_id \in CacheRepos :
            (rcput'[repo_id] # rcput[repo_id] \/ rctable' # rctable) =>
                /\ \A other \in CacheRepos \ {repo_id} :
                      rcput'[other] = rcput[other]
                      => GroupOf(rctable', other) = GroupOf(rctable, other)
                /\ CacheReleases(repo_id, rcput'[repo_id].releases)
                      => /\ Len(GroupOf(rctable', repo_id)) = Len(rcput'[repo_id].releases)
                         /\ \A i \in 1..Len(GroupOf(rctable', repo_id)) :
                               GroupOf(rctable', repo_id)[i].cached_at = rcnow
                /\ InvalidateCache(repo_id) => GroupOf(rctable', repo_id) = <<>>]_vars

\* two releases put TTL minutes ago, one of them with an asset and both
\* archives, were answered while the other repo holds a group too
WitnessCachedAnswer ==
    /\ rcres.found
    /\ Len(rcres.releases) = 2
    /\ rcnow = rcput[rcres.repo_id].at + RELEASE_CACHE_TTL_MINUTES
    /\ \E i \in 1..2 : Len(rcres.releases[i].assets) = 3
    /\ \A repo_id \in CacheRepos : GroupOf(rctable, repo_id) # <<>>

(***************************************************************************)
(*                       Claims on the commit rows                         *)
(***************************************************************************)

\* C22: the commit rows of a repository carry the numbers 1..N, each once,
\* the numbers grow with the date, and number 1 is the oldest commit of the
\* repository.
CommitNumbersChronological ==
    \A path \in GitRepos :
        LET commits == grows[path].commits
        IN /\ \A k \in 1..Len(commits) : commits[k].commit_number = k
           /\ \A a, b \in 1..Len(commits) :
                 commits[a].commit_number < commits[b].commit_number
                 => commits[a].date <= commits[b].date
           /\ commits # <<>> =>
                 \A i \in 1..Len(ghist[path]) : commits[1].date <= ghist[path][i]

(***************************************************************************)
(*                       Claims on the commit count                        *)
(***************************************************************************)

\* C23: on a 200 answer whose Link header has a rel="last" link with page=N
\* fetch_commit_count returns N; on a 200 answer without one it returns the
\* length of the body list; on 409 it returns 0; it never raises.
CommitCountContract ==
    ccres.called =>
        LET response == ccres.response
            last == {i \in 1..Len(response.link) :
                        /\ response.link[i].rel = "last"
                        /\ \E k \in 1..Len(response.link[i].query) :
                              /\ response.link[i].query[k].name = "page"
                              /\ response.link[i].query[k].digits}
        IN /\ ~ccres.raised
           /\ (response.status = 200 /\ last # {}) =>
                 \E i \in last : \E k \in 1..Len(response.link[i].query) :
                    /\ response.link[i].query[k].name = "page"
                    /\ ccres.count = response.link[i].query[k].value
           /\ (response.status = 200 /\ last = {} /\ response.body.kind = "list") =>
                 ccres.count = response.body.len
           /\ response.status = 409 => ccres.count = 0

\* the answer 200 with the links next (page=2) and last (page=42) gave 42
WitnessLastPage ==
    /\ ccres.called
    /\ ccres.response.status = 200
    /\ Len(ccres.response.link) = 2
    /\ ccres.response.link[1].rel = "next"
    /\ ccres.response.link[2].rel = "last"
    /\ ccres.response.link[1].query = << Param("per_page", TRUE, 1), Param("page", TRUE, 2) >>
    /\ ccres.count = 42

(***************************************************************************)
(*                   Claims on the API status endpoint                     *)
(***************************************************************************)

\* C26: a read of the API status makes a rate-limit request, with the token
\* of the environment or else the stored one, whenever api_status holds no
\* row or a row whose reset_time is earlier than now, and makes no request
\* when it holds a row whose reset_time is not earlier than now.
StaleReadRefetches ==
    [][(\E headers \in HeaderSet : ReadApiStatus(headers)) =>
          /\ stres'.requests = 1
                <=> (IF strow = <<>> THEN TRUE ELSE strow[1].reset_time < stnow)
          /\ stres'.requests = 1 =>
                stres'.token = (IF tcfg.env \notin {NoToken, <<>>} THEN tcfg.env
                                ELSE IF Decrypt(tcfg.stored, tcfg.key) # <<>>
                                THEN Decrypt(tcfg.stored, tcfg.key)
                                ELSE NoToken)]_vars

(***************************************************************************)
(*                       Claims on the log worker                          *)
(***************************************************************************)

\* C29: once the cancelled log worker has exited, every record put on the
\* queue before the cancellation is in the logs table.
LogsDrainedOnCancel ==
    logw.pc = "exited" => logc.before \subseteq logs

(***************************************************************************)
(*            Claims on overlapping orchestrator operations                *)
(***************************************************************************)

\* C32: the registry holds at most one instance for any (repo_id,
\* commit_hash), whatever the interleaving of concurrent start_server calls.
OneInstancePerCommit ==
    \A i, j \in 1..Len(servers) : servers[i].key = servers[j].key => i = j

\* C33: when stop_all has completed, no instance of the registry has status
\* running and no child process started by the orchestrator is alive, also
\* with start_server calls in flight.
StopAllStopsEverything ==
    [][StopAll =>
          /\ chld' = {}
          /\ \A i \in 1..Len(servers') : servers'[i].status # "running"]_vars

\* C38: distinct instances with status running have distinct ports.
RunningPortsDistinct ==
    \A i, j \in 1..Len(servers) :
        (i # j /\ servers[i].status = "running" /\ servers[j].status = "running")
            => servers[i].port # servers[j].port

\* The instance start_server has just put into the registry.
Newest(srv) == srv[Len(srv)]

\* What C35 says of one start_server call for a workspace no adapter
\* validates: no child, no port allocated, one new failed instance whose error
\* names at most ListedLimit files of the workspace, the others as they were.
AdapterFailureRecorded(key, files) ==
    /\ chld' = chld
    /\ next_port' = next_port
    /\ Len(servers') = Len(servers) + 1
    /\ \A i \in 1..Len(servers) : servers'[i] = servers[i]
    /\ Newest(servers').id \notin Ids
    /\ Newest(servers').key = key
    /\ Newest(servers').status = "failed"
    /\ Newest(servers').error = "no_index"
    /\ Len(Newest(servers').listed) <= ListedLimit
    /\ \A k \in 1..Len(Newest(servers').listed) :
          \E n \in 1..Len(files) : files[n] = Newest(servers').listed[k]

\* C35 as stated: start_server for a workspace without index.html spawns no
\* child, allocates no port and records a new failed instance whose error
\* lists at most ten file names, leaving the other instances unchanged.
AdapterFailureAlwaysRecorded ==
    [][\A c \in Calls : (calls[c].pc = "idle" /\ calls'[c].pc # "idle") =>
          \A preferred \in PreferredPorts, files \in Listings :
             (~Validates(files) /\ StartServer(c, calls'[c].key, preferred, files))
                 => AdapterFailureRecorded(calls'[c].key, files)]_vars

\* C35, amended: the same for a (repo_id, commit_hash) the registry holds no
\* instance of; with an instance that is not running, start_server restarts
\* it without choosing an adapter and records no new instance.
AdapterFailureContract ==
    [][\A c \in Calls : (calls[c].pc = "idle" /\ calls'[c].pc # "idle") =>
          \A preferred \in PreferredPorts, files \in Listings :
             (~Validates(files) /\ StartServer(c, calls'[c].key, preferred, files))
                 => IF ExistingIndex(calls'[c].key) = 0
                    THEN AdapterFailureRecorded(calls'[c].key, files)
                    ELSE /\ Len(servers') = Len(servers)
                         /\ next_port' = next_port]_vars

\* a call for a workspace of MaxFiles files without index.html has returned
\* a failed instance that names ListedLimit of them
WitnessAdapterFailure ==
    \E c \in Calls :
        /\ calls[c].pc = "done"
        /\ calls[c].result.error = "no_index"
        /\ Len(calls[c].result.listed) = ListedLimit
        /\ \E i \in 1..Len(servers) : servers[i] = calls[c].result

(***************************************************************************)
(*                 Claims on the retry loop of start_server                *)
(***************************************************************************)

\* The passes of the call all failed with the error start_server retries
\* as a port conflict.
AllPortConflicts(r) ==
    /\ Len(r.passes) = max_retries
    /\ \A k \in 1..Len(r.passes) : r.passes[k].outcome = "os_error"

DownloadUrlValidation ==
    dl.called =>
        LET internal == /\ dl.resolved.kind = "address"
                        /\ \/ dl.resolved.is_private
                           \/ dl.resolved.is_loopback
                           \/ dl.resolved.is_reserved
            permitted == /\ ~dl.url.malformed
                         /\ dl.url.scheme.name = "https"
                         /\ dl.url.host.name \in {h.name : h \in ALLOWED_DOWNLOAD_HOSTS}
                         /\ ~internal
        IN  /\ dl.valid <=> permitted
            /\ ~permitted => (dl.status = 400 /\ dl.requests = 0 /\ dl.written = 0)

\* an https URL of github.com, written in upper case, was rejected because
\* the host resolved to a reserved address, and nothing was requested
WitnessRejectedInternal ==
    /\ dl.called
    /\ dl.url.scheme = Text("https", TRUE)
    /\ dl.url.host = Text("github.com", TRUE)
    /\ dl.resolved = Address(FALSE, FALSE, TRUE)
    /\ dl.status = 400
    /\ dl.requests = 0

(***************************************************************************)
(*                  Claims on the token read endpoint                      *)
(***************************************************************************)

\* C40: the token read endpoint reports isActive with source s exactly when
\* the token resolver, called without a request token, yields a token with
\* source s, and source none without isActive exactly when it yields none.
TokenStatusAgreesWithResolver ==
    [][ReadToken =>
          LET resolved == GetEffectiveToken(NoToken, tcfg.env, tcfg.stored, tcfg.key)
          IN  /\ tstat'.source = resolved.source
              /\ tstat'.isActive <=> resolved.token # NoToken]_vars

(***************************************************************************)
(*             Claims on the repository listing of fetch-user              *)
(***************************************************************************)

\* C39: when the repository listing fails upstream, neither an error marker
\* nor a truncated list is stored as the repos payload of the user, and no
\* fetch-user answers from the cache with one.
UpstreamFailureNotCached ==
    /\ \A i \in 1..Len(cache) :
          cache[i].endpoint_type = "repos"
              => cache[i].data \notin {ReposErrorPayload, TruncatedPayload}
    /\ \A h \in CReqs :
          (creq[h].op = "fetch" /\ creq[h].pc = "done" /\ creq[h].outbound = 0
             /\ Len(creq[h].ret) = 3)
              => creq[h].ret[2] \notin {ReposErrorPayload, TruncatedPayload}

(***************************************************************************)
(*                  Claims on the contribution graph                       *)
(***************************************************************************)

\* C37: a contribution-graph request schedules a background sync whenever
\* the user has no commits_synced entry or refresh is asked for, whether or
\* not commits of the repositories are stored; and the commits_synced marker
\* is written only when a sync has finished.
SyncScheduledWhenNeeded ==
    [][/\ \A refresh \in BOOLEAN :
             (GetContributionGraph(refresh) /\ (refresh \/ ~cg.marker))
                 => Len(cg'.tasks) = Len(cg.tasks) + 1
       /\ (cg'.marker /\ ~cg.marker)
             => \E i \in 1..Len(cg.tasks) : cg.tasks[i] = "fetched" /\ SyncMark(i)]_vars


\* C34: once check_updates has returned, an api_status row that a worker's
\* rate-limit observation wrote is the persisted row: some row of the table
\* on disk is a row the workers' flushes sent.
ObservationsPersisted ==
    (cu.pc = "returned" /\ cu.wrote # {}) =>
        \E k \in 1..Len(disk) : disk[k] \in cu.wrote
====
